---- MODULE Spec2Model ----
(***************************************************************************)
(* Model of the Sudoku engine of src/sudoku.py: the 9x9 grid, the diagonal *)
(* seeder, the backtracking filler, the validity predicate and the         *)
(* difficulty remover, driven through the public operations clear_board,   *)
(* generate, insert_value and get_value.                                   *)
(*                                                                         *)
(* generate is modelled statement by statement: one step per iteration of  *)
(* the seeder's inner loop, one step per call entry, candidate and return  *)
(* of the recursive filler (with an explicit call stack), one step per     *)
(* iteration of the remover's rejection loop.                              *)
(*                                                                         *)
(* The module-level generator of `random` is the state variable rng; every *)
(* draw advances it.  A small linear congruential generator stands for the *)
(* library's: the engine only relies on each draw being a value of the     *)
(* requested range, fixed by the generator state.  The generator state at  *)
(* a call of generate is the environment's: it ranges over 0..NumSeeds-1,  *)
(* so NumSeeds draw sequences are explored for every call.                 *)
(***************************************************************************)
EXTENDS Integers, Sequences, FiniteSets, TLC

VARIABLES
    board,        \* self._board: row -> col -> 0..9
    pc,           \* "idle" between calls, or the stage generate is in
    level,        \* the difficulty the caller passes to generate in this behaviour
    diff_chosen,  \* parameter of the generate call in progress
    x, y, nums,   \* locals of _generate_diagonals
    stack,        \* call stack of _generate_board, innermost frame last
    ret,          \* value returned by the call of _generate_board that just ended
    steps,        \* steps of _generate_board taken in this generate call
    k,            \* iterations of the for loop of _remove_random_fields finished
    rng,          \* state of the generator behind random.choice / random.randint
    seed,         \* the generator state at the last call of generate
    filled,       \* value of _generate_board(0, 0) at line 50 of the last generate
    solved,       \* the grid as the filler of the last generate left it
    result,       \* how the last generate call ended
    lastop,       \* the operation that last wrote the grid
    fresh,        \* the last generate was called on a grid just cleared
    calls,        \* number of generate and insert_value calls made
    got,          \* the get_value call made since the grid was last written:
                  \* {} or {<<row, col, value returned>>}
    first,        \* SpecDet: seed and grid of the first fresh generate that returned
    query,        \* SpecValid: the last call of _is_num_valid and its result
    before,       \* the grid at the start of the last generate or _generate_board
    put,          \* arguments of the insert_value call that last wrote the grid
    rects,              \* SudokuGUI._rects: col -> row -> square, <<>> before the first game
    last_moves,         \* SudokuGUI._last_moves
    selected_index,     \* SudokuGUI._selected_index
    notes_mode,         \* SudokuGUI._notes_mode
    scr,                \* the current screen: "menu" or "game"
    faded_diff_choice,  \* SudokuGUI._faded_diff_choice
    faded_win,          \* SudokuGUI._faded_win
    continue,           \* SudokuGUI._continue
    paused,             \* SudokuGUI._timer.paused
    gui_difficulty,     \* SudokuGUI._difficulty
    clickable,          \* the digits whose numpad button is clickable
    gpc,                \* "loop", or the line of SudokuGUI._generate_board reached
    event,              \* the last event a screen loop handled
    presses,            \* editing events handled once the free squares are left
    player,             \* the squares the player of this game clicks and fills
    timer,              \* SudokuGUI._timer: the fields of the Timer but _paused
    ticks,              \* pygame.time.get_ticks()
    ran,                \* the clock time the timer was left running since its reset
    current,            \* the screens whose _current flag is set
    pass,               \* the pass of a screen loop in progress, and its mouse position
    shown,              \* the squares whose selected flag is set
    stats,              \* SudokuGUI._stats
    stats_to_save,      \* SudokuGUI._stats_to_save
    menu_btns,          \* the rectangles of self._menu_btns
    ref                 \* the list a caller got from the board property of the engine

\* the state of the Sudoku object
engine_vars == <<board, pc, level, diff_chosen, x, y, nums, stack, ret, steps, k,
                 rng, seed, filled, solved, result, lastop, fresh, calls, got,
                 first, query, before, put>>

\* the state of the SudokuGUI object
gui_vars == <<rects, last_moves, selected_index, notes_mode, scr,
              faded_diff_choice, faded_win, continue, paused, gui_difficulty,
              clickable, gpc, event, presses, player, timer, ticks, ran,
              current, pass, shown, stats, stats_to_save, menu_btns>>

vars == <<engine_vars, gui_vars, ref>>

----------------------------------------------------------------------------
(* Bounds of the exploration *)

NumSeeds == 3          \* generator states 0..NumSeeds-1 at a call of generate
MaxCalls == 2          \* generate and insert_value calls per behaviour
MaxFillSteps == 5000   \* a filler search longer than this is not followed further
MaxFree == 1           \* squares of a game the player edits freely
MaxBatch == 2          \* events handled in one pass of a screen loop
MaxPasses == 5         \* passes with their own mouse position, per behaviour
MaxEvents == 3         \* events of the batched passes of one game
MaxTicks == 2          \* the clock runs up to this time
MaxPresses == 2        \* editing events of the free play of a game

\* levels handed to generate: the four configured keys and an unknown one
LevelInputs == {0, 1, 2, 3, 4}
\* cells and values handed to insert_value
InsertCells == {<<2, 4>>, <<4, 4>>}
InsertValues == {0, 5}
\* cells handed to get_value
GetCells == {<<2, 4>>, <<4, 4>>, <<0, 8>>}

----------------------------------------------------------------------------
(* Program constants *)

Size == 9            \* range(9)
Box == 3             \* x % 3, row % 3, range(start, start + 3)
Idx == 0 .. (Size - 1)

\* range(1, 10)
DigitsFromZero == 0 .. (Size - 1)

Digits == 1 .. Size

\* self._difficulty
difficulty == (0 :> 35) @@ (1 :> 43) @@ (2 :> 55) @@ (3 :> 60)

\* the grid of __init__
ZeroBoard == [r \in Idx |-> [c \in Idx |-> 0]]

\* the grid clear_board assigns
ClearedBoardNotAssigned == board

ClearedBoard == [r \in Idx |-> [c \in Idx |-> 0]]

----------------------------------------------------------------------------
(* The random source *)

\* the generator advances: a full-period congruential step on 12 bits
RngNext(s) == (1229 * s + 1013) % 4096

\* the number a draw delivers in generator state s (the state after advancing):
\* the high 8 bits
RngOut(s) == s \div 16

\* tuple(nums): a set of small ints iterates in ascending order
RECURSIVE TupleInRunOrder(_)
TupleInRunOrder(S) ==
    IF S = {} THEN <<>>
    ELSE LET m == CHOOSE m \in S : \A n \in S : IF calls = 1 THEN m <= n ELSE m >= n
         IN  <<m>> \o TupleInRunOrder(S \ {m})

RECURSIVE SortedTuple(_)
SortedTuple(S) ==
    IF S = {} THEN <<>>
    ELSE LET m == CHOOSE m \in S : \A n \in S : m <= n
         IN  <<m>> \o SortedTuple(S \ {m})

\* random.choice(seq)
RandChoice(s, seq) == seq[(RngOut(s) % Len(seq)) + 1]

\* random.randint(lo, hi)
RandInt(s, lo, hi) == lo + (RngOut(s) % (hi - lo + 1))

----------------------------------------------------------------------------
(* Pure helpers *)

\* self._board[r][c] = v
SetCellSwapped(b, r, c, v) == [b EXCEPT ![c][r] = v]

SetCell(b, r, c, v) == [b EXCEPT ![r][c] = v]

\* x - x % 3, row - row % 3
BoxStartMod(i) == i % Box

BoxStart(i) == i - (i % Box)

BoxRange(i) == BoxStart(i) .. (BoxStart(i) + Box - 1)

\* _is_num_valid(row, col, num) on grid b
is_num_valid_no_box(b, row, col, num) ==
    /\ ~ (\E c \in Idx : b[row][c] = num)
    /\ ~ (\E r \in Idx : b[r][col] = num)

is_num_valid_no_row(b, row, col, num) ==
    /\ ~ (\E r \in Idx : b[r][col] = num)
    /\ ~ (\E i \in BoxRange(row), j \in BoxRange(col) : b[i][j] = num)

is_num_valid_no_col(b, row, col, num) ==
    /\ ~ (\E c \in Idx : b[row][c] = num)
    /\ ~ (\E i \in BoxRange(row), j \in BoxRange(col) : b[i][j] = num)

is_num_valid_row_box(b, row, col, num) ==
    /\ ~ (\E c \in Idx : b[row][c] = num)
    /\ ~ (\E r \in Idx : b[r][col] = num)
    /\ ~ (\E i \in BoxRange(row), j \in BoxRange(row) : b[i][j] = num)

is_num_valid(b, row, col, num) ==
    /\ ~ (\E c \in Idx : b[row][c] = num)                       \* lines 93-94
    /\ ~ (\E r \in Idx : b[r][col] = num)                       \* lines 96-98
    /\ ~ (\E i \in BoxRange(row), j \in BoxRange(col) : b[i][j] = num)  \* 100-106

\* self._difficulty[diff_chosen]: the value under the key, or nothing (KeyError)
LookupWithDefault(L) == IF L \in DOMAIN difficulty THEN {difficulty[L]} ELSE {difficulty[0]}

Lookup(L) == IF L \in DOMAIN difficulty THEN {difficulty[L]} ELSE {}

\* the number of iterations of the for loop of line 117
BlankCount(L) == CHOOSE n \in Lookup(L) : TRUE

\* `while not field`: the drawn cell is drawn again
RedrawNever(field) == FALSE

RedrawAlways(field) == TRUE

Redraw(field) == field = 0

\* a frame of _generate_board: its i and j, the candidate num of the for loop
\* and the point the frame is at: "entry" (line 61), "loop" (line 73),
\* "skip" (waiting for the call of line 70), "rec" (waiting for line 77)
Frame(i, j, num, at) == [i |-> i, j |-> j, num |-> num, at |-> at]

Top == stack[Len(stack)]
Pop == SubSeq(stack, 1, Len(stack) - 1)
ReplaceTop(f) == [stack EXCEPT ![Len(stack)] = f]

----------------------------------------------------------------------------
(* The widgets and the timer of src/sudoku_gui.py.  A rectangle is kept as *)
(* pygame.Rect keeps it, in whole pixels: a fractional coordinate is cut   *)
(* to the integer below it.                                                *)

\* pygame.Rect((left, top), (width, height))
Rect(left, top, width, height) ==
    [left |-> left, top |-> top, width |-> width, height |-> height]

\* pygame.Rect.collidepoint(pos)
collidepoint(rect, pos) ==
    /\ rect.left <= pos[1] /\ pos[1] < rect.left + rect.width
    /\ rect.top <= pos[2] /\ pos[2] < rect.top + rect.height

\* Button.__init__ without an image: pygame.Rect(position, self._size), the
\* size with the border on both sides
ButtonRect(position, size, border) ==
    Rect(position[1], position[2], size[1] + 2 * border, size[2] + 2 * border)

\* Button._draw_image: the rectangle of the image, centred on the surface and
\* moved by self._position (the position less the border)
ImageButtonRect(position, size, border, image_size) ==
    Rect((position[1] - border) + ((size[1] + 2 * border) - image_size[1]) \div 2,
         (position[2] - border) + ((size[2] + 2 * border) - image_size[2]) \div 2,
         image_size[1], image_size[2])

SCR_WIDTH == 800
SCR_HEIGHT == 600
board_size == 504
square_side == board_size \div Size
square_offset_x == (SCR_WIDTH - board_size) \div 2 - SCR_WIDTH \div 16
square_offset_y == (SCR_HEIGHT - board_size) \div 2
timer_x == board_size + square_offset_x + 25
timer_y == (SCR_HEIGHT - board_size) \div 2

\* the rect of the square built for row i and col j by _generate_board
square_rect(i, j) ==
    Rect(j * square_side + square_offset_x, i * square_side + square_offset_y,
         square_side, square_side)

\* the buttons of the game screen
pause_btn == ImageButtonRect(<<timer_x + 80, timer_y>>, <<38, 38>>, 0, <<26, 26>>)
unpause_btn == ImageButtonRect(<<timer_x + 80, timer_y>>, <<38, 38>>, 0, <<26, 26>>)
numpad_size == <<136, 136>>
numpad_pos == <<timer_x, timer_y + 100>>
numpad_btns ==
    [n \in Digits |->
        ButtonRect(<<(numpad_size[1] * ((n - 1) % 3)) \div 3 + numpad_pos[1],
                     (numpad_size[2] * ((n - 1) \div 3)) \div 3 + numpad_pos[2]>>,
                   <<numpad_size[1] \div 3, numpad_size[2] \div 3>>, 1)]
erase_btn ==
    ButtonRect(<<numpad_pos[1], numpad_pos[2] + numpad_size[2] + 25>>,
               <<numpad_size[1], 25>>, 0)
undo_btn ==
    ButtonRect(<<numpad_pos[1], numpad_pos[2] + numpad_size[2] + 60>>,
               <<numpad_size[1], 25>>, 0)
return_btn ==
    ButtonRect(<<numpad_pos[1], square_offset_y + board_size - 40>>,
               <<numpad_size[1], 40>>, 2)

\* the buttons of the menu: self._menu_btns is continue, new game, stats, exit
menu_btn_spacing == 15
menu_btn_size == <<300, 100>>
menu_btn_border == 4

\* the menu buttons as the constructor makes them, at position (0, 0)
MenuBtnsAtOrigin ==
    [b \in 1 .. 4 |-> ButtonRect(<<0, 0>>, menu_btn_size, menu_btn_border)]

\* _update_menu_layout(): the buttons from start on are laid out again, with
\* button.size the size with the border; the continue button keeps its
\* rectangle while it is left out
update_menu_layout(btns, cont) ==
    LET start == IF cont THEN 0 ELSE 1
        twice_menu_y == SCR_HEIGHT
                          - (4 - start) * (menu_btn_size[2] + menu_btn_spacing)
        menu_x == (SCR_WIDTH - menu_btn_size[1]) \div 2
    IN  [b \in 1 .. 4 |->
            IF b - 1 < start THEN btns[b]
            ELSE LET i == (b - 1) - start
                 IN  Rect(menu_x,
                          (2 * (btns[b].height * i + menu_btn_spacing * i)
                             + twice_menu_y) \div 2,
                          btns[b].width, btns[b].height)]

language_btn ==
    ImageButtonRect(<<SCR_WIDTH - 60 - 30, 30>>, <<60, 33>>, 2, <<60, 33>>)

\* self._diff_btns[i]
diff_btn(i) ==
    LET diff_btn_size == <<300, 75>>
        cont_border == 25
        diff_btns_cont_height ==
            diff_btn_size[2] * 4 + menu_btn_spacing * 3 + cont_border * 2
    IN  ButtonRect(<<(SCR_WIDTH - diff_btn_size[1]) \div 2,
                     (SCR_HEIGHT - diff_btns_cont_height
                        + 2 * ((diff_btn_size[2] + menu_btn_spacing) * i)) \div 2>>,
                   diff_btn_size, 4)

\* the buttons of the statistics screen
stats_btn_size == <<136, 40>>
stats_return_btn ==
    ButtonRect(<<SCR_WIDTH \div 5, SCR_HEIGHT - stats_btn_size[2] - 25>>,
               stats_btn_size, 2)
stats_reset_btn ==
    ButtonRect(<<(SCR_WIDTH * 3) \div 5, SCR_HEIGHT - stats_btn_size[2] - 25>>,
               <<numpad_size[1], 40>>, 2)

\* the return button of the win screen
win_return_btn ==
    LET win_surf_size == <<(SCR_WIDTH * 7) \div 10, (SCR_HEIGHT * 7) \div 10>>
        win_surf_pos == <<(SCR_WIDTH - win_surf_size[1]) \div 2,
                          (SCR_HEIGHT - win_surf_size[2]) \div 2>>
        win_return_btn_size == <<300, 75>>
    IN  ButtonRect(<<win_surf_pos[1] + win_surf_size[1] \div 2
                        - win_return_btn_size[1] \div 2,
                     win_surf_pos[2] + win_surf_size[2]
                        - win_return_btn_size[2] - 40>>,
                   win_return_btn_size, 4)

\* Timer.__init__, without _paused
NewTimer ==
    [start |-> 0, time |-> 0, pause_time |-> 0, unpause_time |-> 0,
     stopped |-> FALSE]

\* Timer.pause() at clock time t; it also sets _paused
timer_pause(tm, t) ==
    LET pause_time == tm.start - (tm.unpause_time - t)
    IN  [tm EXCEPT !.pause_time = pause_time, !.time = tm.time + pause_time]

\* Timer.unpause() at clock time t; it also clears _paused
timer_unpause(tm, t) == [tm EXCEPT !.unpause_time = t - tm.start]

\* Timer.reset(); _paused is left as it is
timer_reset(tm) ==
    [tm EXCEPT !.start = 0, !.time = 0, !.pause_time = 0, !.unpause_time = 0,
               !.stopped = FALSE]

\* Timer.stop() at clock time t
timer_stop(tm, t) ==
    IF ~ tm.stopped
      THEN [tm EXCEPT !.time = tm.time + (tm.start - (tm.unpause_time - t)),
                      !.stopped = TRUE]
      ELSE tm

\* Timer.current at clock time t
timer_current(tm, pa, t) ==
    IF pa \/ tm.stopped THEN tm.time ELSE tm.time + t - tm.unpause_time

\* the clock time counted as running: an unpause starts an interval, a pause
\* or a stop ends it, a reset drops all of it
RanNone == [time |-> 0, running |-> FALSE]
ran_start(rn) == [rn EXCEPT !.running = TRUE]
ran_end(rn) == [rn EXCEPT !.running = FALSE]

\* self._DIFF_TO_STATS
DIFF_TO_STATS == [d \in 0 .. 3 |-> <<"easy", "medium", "hard", "expert">>[d + 1]]

\* the statistics _create_stats writes to a new file: the lists of times and
\* the counts, by difficulty
NewStats ==
    [times |-> [d \in {"easy", "medium", "hard", "expert"} |-> <<>>],
     count |-> [d \in {"easy", "medium", "hard", "expert"} |-> 0]]

\* no list of the engine has been handed out.  Otherwise ref.list tells
\* whether the list is still the engine's self._board or one that
\* clear_board has replaced, and ref.grid is what a replaced list holds
NoRef == [list |-> "none", grid |-> ZeroBoard]

\* no pass of a screen loop is in progress; pass.left counts the passes the
\* players of SpecMenu and SpecTimer may still start
NoPass == [loop |-> "none", pos |-> <<0, 0>>, n |-> 0, left |-> MaxPasses]

----------------------------------------------------------------------------
(* Initial state: Sudoku(), and the SudokuGUI that owns it *)

\* the event variable when no event has been handled
NoEvent == [kind |-> "none"]

\* SudokuGUI.__init__, as far as the game logic reads it
GuiInit ==
    /\ rects = <<>>
    /\ last_moves = <<>>
    /\ selected_index = <<-1, -1>>
    /\ notes_mode = FALSE
    /\ scr = "menu"
    /\ faded_diff_choice = FALSE
    /\ faded_win = FALSE
    /\ continue = FALSE
    /\ paused = TRUE
    /\ gui_difficulty = 0
    /\ clickable = Digits
    /\ gpc = "loop"
    /\ event = NoEvent
    /\ presses = 0
    /\ player = <<>>
    /\ timer = NewTimer
    /\ ticks = 0
    /\ ran = RanNone
    /\ current = {"menu"}
    /\ pass = NoPass
    /\ shown = {}
    /\ stats = NewStats
    /\ stats_to_save = FALSE
    /\ menu_btns = update_menu_layout(MenuBtnsAtOrigin, FALSE)
    /\ ref = NoRef


Init ==
    /\ board = ZeroBoard
    /\ pc = "idle"
    /\ level \in LevelInputs
    /\ diff_chosen = 0
    /\ x = 0 /\ y = 0 /\ nums = {}
    /\ stack = <<>>
    /\ ret = "none"
    /\ steps = 0
    /\ k = 0
    /\ rng = 0
    /\ seed = 0
    /\ filled = "none"
    /\ solved = ZeroBoard
    /\ result = "none"
    /\ lastop = "init"
    /\ fresh = FALSE
    /\ calls = 0
    /\ got = {}
    /\ first = <<>>
    /\ query = <<>>
    /\ before = ZeroBoard
    /\ put = <<>>
    /\ GuiInit

----------------------------------------------------------------------------
(* Public operations, callable when no call is in progress *)

\* clear_board()
ClearBoardCall ==
    /\ pc = "idle"
    /\ board' = ClearedBoard
    /\ ref' = IF ref.list = "self._board"
                THEN [list |-> "replaced", grid |-> board] ELSE ref
    /\ lastop' = "clear_board"
    /\ got' = {}
    /\ put' = <<>>
    /\ UNCHANGED <<pc, level, diff_chosen, x, y, nums, stack, ret, steps, k, rng,
                   seed, filled, solved, result, fresh, calls, first, query,
                   before>>

clear_board == ClearBoardCall /\ UNCHANGED gui_vars

\* insert_value(row, col, value), the arguments drawn from the given sets
InsertValue(cells, values) ==
    /\ pc = "idle"
    /\ calls < MaxCalls
    /\ \E cell \in cells, value \in values :
          /\ board' = SetCell(board, cell[1], cell[2], value)
          /\ put' = <<cell[1], cell[2], value>>
    /\ calls' = calls + 1
    /\ lastop' = "insert_value"
    /\ got' = {}
    /\ UNCHANGED <<pc, level, diff_chosen, x, y, nums, stack, ret, steps, k, rng,
                   seed, filled, solved, result, fresh, first, query, before>>
    /\ UNCHANGED <<gui_vars, ref>>

insert_value == InsertValue(InsertCells, InsertValues)

\* get_value(row, col): got keeps the arguments and the value returned
get_value ==
    /\ pc = "idle"
    /\ \E cell \in GetCells :
          got' = {<<cell[1], cell[2], board[cell[1]][cell[2]]>>}
    /\ UNCHANGED <<board, pc, level, diff_chosen, x, y, nums, stack, ret, steps,
                   k, rng, seed, filled, solved, result, lastop, fresh, calls,
                   first, query, before, put>>
    /\ UNCHANGED <<gui_vars, ref>>

\* the board property: the caller gets the list self._board itself, and holds
\* it from then on (ref is "self._board" while the engine still uses that list)
board_get ==
    /\ pc = "idle"
    /\ ref.list # "self._board"
    /\ ref' = [list |-> "self._board", grid |-> ZeroBoard]
    /\ UNCHANGED <<engine_vars, gui_vars>>

\* generate(diff_chosen): the call, up to the first iteration of the seeder
\* (nums = set(); x = 0; nums is refilled because it is empty; start = 0)
GenerateCall(d) ==
    /\ pc = "idle"
    /\ calls < MaxCalls
    /\ calls' = calls + 1
    /\ diff_chosen' = d
    /\ \E s \in 0 .. (NumSeeds - 1) : rng' = s /\ seed' = s
    /\ fresh' = (lastop \in {"init", "clear_board"})
    /\ lastop' = "generate"
    /\ result' = "none"
    /\ filled' = "none"
    /\ solved' = ZeroBoard
    /\ got' = {}
    /\ pc' = "seed"
    /\ x' = 0 /\ y' = BoxStart(0)
    /\ nums' = Digits
    /\ stack' = <<>> /\ ret' = "none" /\ steps' = 0 /\ k' = 0
    /\ before' = board
    /\ put' = <<>>
    /\ UNCHANGED <<board, level, first, query>>

generate == GenerateCall(level) /\ UNCHANGED <<gui_vars, ref>>

----------------------------------------------------------------------------
(* _generate_diagonals: one step per iteration of the inner loop *)

seed_draw ==
    /\ pc = "seed"
    /\ LET s    == RngNext(rng)
           num  == RandChoice(s, SortedTuple(nums))
           rest == nums \ {num}
           last == (y = BoxStart(x) + Box - 1)      \* end of range(start, start + 3)
       IN  /\ rng' = s
           /\ board' = SetCell(board, x, y, num)
           /\ IF ~last
                THEN /\ y' = y + 1 /\ x' = x /\ nums' = rest
                     /\ UNCHANGED <<pc, stack>>
              ELSE IF x < Size - 1
                THEN \* next x: nums is refilled if empty, start = x - x % 3
                     /\ x' = x + 1
                     /\ y' = BoxStart(x + 1)
                     /\ nums' = IF rest = {} THEN Digits ELSE rest
                     /\ UNCHANGED <<pc, stack>>
              ELSE \* the seeder returns; generate calls _generate_board(0, 0)
                     /\ x' = x /\ y' = y /\ nums' = rest
                     /\ pc' = "fill"
                     /\ stack' = <<Frame(0, 0, 0, "entry")>>
    /\ UNCHANGED <<level, diff_chosen, ret, steps, k, seed, filled, solved,
                   result, lastop, fresh, calls, got, first, query,
                   before, put>>
    /\ UNCHANGED <<gui_vars, ref>>

----------------------------------------------------------------------------
(* _generate_board: the recursion, with an explicit stack *)

FillStep ==
    /\ pc = "fill" /\ stack # <<>>
    /\ steps < MaxFillSteps
    /\ steps' = steps + 1

\* lines 61-70 and the start of the for loop
fill_enter_no_skip ==
    /\ FillStep /\ ret = "none"
    /\ Top.at = "entry"
    /\ IF Top.i = Size - 1 /\ Top.j = Size
         THEN /\ stack' = Pop
              /\ ret' = "True"
       ELSE LET i == IF Top.j = Size THEN Top.i + 1 ELSE Top.i
                j == IF Top.j = Size THEN 0 ELSE Top.j
            IN  /\ stack' = ReplaceTop(Frame(i, j, 1, "loop"))
                /\ ret' = "none"
    /\ UNCHANGED <<board, pc, level, diff_chosen, x, y, nums, k, rng, seed,
                   filled, solved, result, lastop, fresh, calls, got, first, query,
                   before, put>>
    /\ UNCHANGED <<gui_vars, ref>>

fill_enter_early_base ==
    /\ FillStep /\ ret = "none"
    /\ Top.at = "entry"
    /\ IF Top.i = Size - 1 /\ Top.j = Size - 1
         THEN /\ stack' = Pop
              /\ ret' = "True"
       ELSE LET i == IF Top.j = Size THEN Top.i + 1 ELSE Top.i
                j == IF Top.j = Size THEN 0 ELSE Top.j
            IN  IF board[i][j] # 0
                  THEN /\ stack' = Append(ReplaceTop(Frame(i, j, 0, "skip")),
                                          Frame(i, j + 1, 0, "entry"))
                       /\ ret' = "none"
                ELSE /\ stack' = ReplaceTop(Frame(i, j, 1, "loop"))
                     /\ ret' = "none"
    /\ UNCHANGED <<board, pc, level, diff_chosen, x, y, nums, k, rng, seed,
                   filled, solved, result, lastop, fresh, calls, got, first, query,
                   before, put>>
    /\ UNCHANGED <<gui_vars, ref>>

fill_enter ==
    /\ FillStep /\ ret = "none"
    /\ Top.at = "entry"
    /\ IF Top.i = Size - 1 /\ Top.j = Size
         THEN \* return True
              /\ stack' = Pop
              /\ ret' = "True"
       ELSE LET i == IF Top.j = Size THEN Top.i + 1 ELSE Top.i
                j == IF Top.j = Size THEN 0 ELSE Top.j
            IN  IF board[i][j] # 0
                  THEN \* return self._generate_board(i, j + 1)
                       /\ stack' = Append(ReplaceTop(Frame(i, j, 0, "skip")),
                                          Frame(i, j + 1, 0, "entry"))
                       /\ ret' = "none"
                ELSE /\ stack' = ReplaceTop(Frame(i, j, 1, "loop"))
                     /\ ret' = "none"
    /\ UNCHANGED <<board, pc, level, diff_chosen, x, y, nums, k, rng, seed,
                   filled, solved, result, lastop, fresh, calls, got, first, query,
                   before, put>>
    /\ UNCHANGED <<gui_vars, ref>>

\* one candidate of the for loop: lines 74-77, or line 80 when it is not valid
fill_try_descending ==
    /\ FillStep /\ ret = "none"
    /\ Top.at = "loop" /\ Top.num <= Size
    /\ IF is_num_valid(board, Top.i, Top.j, Size + 1 - Top.num)
         THEN /\ board' = SetCell(board, Top.i, Top.j, Size + 1 - Top.num)
              /\ stack' = Append(ReplaceTop(Frame(Top.i, Top.j, Top.num, "rec")),
                                 Frame(Top.i, Top.j + 1, 0, "entry"))
       ELSE /\ board' = SetCell(board, Top.i, Top.j, 0)
            /\ stack' = ReplaceTop(Frame(Top.i, Top.j, Top.num + 1, "loop"))
    /\ UNCHANGED <<pc, level, diff_chosen, x, y, nums, ret, k, rng, seed,
                   filled, solved, result, lastop, fresh, calls, got, first, query,
                   before, put>>
    /\ UNCHANGED <<gui_vars, ref>>

fill_try ==
    /\ FillStep /\ ret = "none"
    /\ Top.at = "loop" /\ Top.num <= Size
    /\ IF is_num_valid(board, Top.i, Top.j, Top.num)
         THEN /\ board' = SetCell(board, Top.i, Top.j, Top.num)
              /\ stack' = Append(ReplaceTop(Frame(Top.i, Top.j, Top.num, "rec")),
                                 Frame(Top.i, Top.j + 1, 0, "entry"))
       ELSE /\ board' = SetCell(board, Top.i, Top.j, 0)
            /\ stack' = ReplaceTop(Frame(Top.i, Top.j, Top.num + 1, "loop"))
    /\ UNCHANGED <<pc, level, diff_chosen, x, y, nums, ret, k, rng, seed,
                   filled, solved, result, lastop, fresh, calls, got, first, query,
                   before, put>>
    /\ UNCHANGED <<gui_vars, ref>>

\* the for loop is exhausted: return False (line 82)
fill_exhausted_true ==
    /\ FillStep /\ ret = "none"
    /\ Top.at = "loop" /\ Top.num > Size
    /\ stack' = Pop
    /\ ret' = "True"
    /\ UNCHANGED <<board, pc, level, diff_chosen, x, y, nums, k, rng, seed,
                   filled, solved, result, lastop, fresh, calls, got, first, query,
                   before, put>>
    /\ UNCHANGED <<gui_vars, ref>>

fill_exhausted ==
    /\ FillStep /\ ret = "none"
    /\ Top.at = "loop" /\ Top.num > Size
    /\ stack' = Pop
    /\ ret' = "False"
    /\ UNCHANGED <<board, pc, level, diff_chosen, x, y, nums, k, rng, seed,
                   filled, solved, result, lastop, fresh, calls, got, first, query,
                   before, put>>
    /\ UNCHANGED <<gui_vars, ref>>

\* a callee has returned into the frame on top
fill_resume_no_reset ==
    /\ FillStep /\ ret # "none"
    /\ IF Top.at = "skip" \/ ret = "True"
         THEN /\ stack' = Pop
              /\ UNCHANGED <<board, ret>>
       ELSE /\ board' = board
            /\ stack' = ReplaceTop(Frame(Top.i, Top.j, Top.num + 1, "loop"))
            /\ ret' = "none"
    /\ UNCHANGED <<pc, level, diff_chosen, x, y, nums, k, rng, seed,
                   filled, solved, result, lastop, fresh, calls, got, first, query,
                   before, put>>
    /\ UNCHANGED <<gui_vars, ref>>

fill_resume ==
    /\ FillStep /\ ret # "none"
    /\ IF Top.at = "skip" \/ ret = "True"
         THEN \* line 70 returns the callee's value; line 78 returns True
              /\ stack' = Pop
              /\ UNCHANGED <<board, ret>>
       ELSE \* line 80, then the next candidate
            /\ board' = SetCell(board, Top.i, Top.j, 0)
            /\ stack' = ReplaceTop(Frame(Top.i, Top.j, Top.num + 1, "loop"))
            /\ ret' = "none"
    /\ UNCHANGED <<pc, level, diff_chosen, x, y, nums, k, rng, seed,
                   filled, solved, result, lastop, fresh, calls, got, first, query,
                   before, put>>
    /\ UNCHANGED <<gui_vars, ref>>

\* _generate_board(0, 0) has returned to generate (line 50), which drops the
\* value and calls _remove_random_fields(diff_chosen)
fill_return ==
    /\ pc = "fill" /\ stack = <<>> /\ ret # "none"
    /\ filled' = ret
    /\ ret' = "none"
    /\ solved' = board
    /\ pc' = "remove"
    /\ k' = 0
    /\ UNCHANGED <<board, level, diff_chosen, x, y, nums, stack, steps, rng, seed,
                   result, lastop, fresh, calls, got, first, query,
                   before, put>>
    /\ UNCHANGED <<gui_vars, ref>>

----------------------------------------------------------------------------
(* _remove_random_fields *)

\* self._difficulty[diff_chosen] raises KeyError, which leaves generate
remove_keyerror ==
    /\ pc = "remove"
    /\ Lookup(diff_chosen) = {}
    /\ pc' = "idle"
    /\ result' = "KeyError"
    /\ UNCHANGED <<board, level, diff_chosen, x, y, nums, stack, ret, steps, k,
                   rng, seed, filled, solved, lastop, fresh, calls, got, first,
                   query, before, put>>
    /\ UNCHANGED <<gui_vars, ref>>

\* an iteration of the while loop that draws a zero cell: the loop goes on
remove_redraw_counted ==
    /\ pc = "remove"
    /\ Lookup(diff_chosen) # {} /\ k < BlankCount(diff_chosen)
    /\ LET s1 == RngNext(rng)
           s2 == RngNext(s1)
           rand_row == RandInt(s1, 0, Size - 1)
           rand_col == RandInt(s2, 0, Size - 1)
       IN  /\ Redraw(board[rand_row][rand_col])
           /\ rng' = s2
    /\ k' = k + 1
    /\ UNCHANGED <<board, pc, level, diff_chosen, x, y, nums, stack, ret, steps,
                   seed, filled, solved, result, lastop, fresh, calls, got,
                   first, query, before, put>>
    /\ UNCHANGED <<gui_vars, ref>>

remove_redraw ==
    /\ pc = "remove"
    /\ Lookup(diff_chosen) # {} /\ k < BlankCount(diff_chosen)
    /\ LET s1 == RngNext(rng)
           s2 == RngNext(s1)
           rand_row == RandInt(s1, 0, Size - 1)
           rand_col == RandInt(s2, 0, Size - 1)
       IN  /\ Redraw(board[rand_row][rand_col])
           /\ rng' = s2
    /\ UNCHANGED <<board, pc, level, diff_chosen, x, y, nums, stack, ret, steps,
                   k, seed, filled, solved, result, lastop, fresh, calls, got,
                   first, query, before, put>>
    /\ UNCHANGED <<gui_vars, ref>>

\* the iteration that ends the while loop, and line 124
remove_blank_checked ==
    /\ pc = "remove"
    /\ Lookup(diff_chosen) # {} /\ k < BlankCount(diff_chosen)
    /\ LET s1 == RngNext(rng)
           s2 == RngNext(s1)
           rand_row == RandInt(s1, 0, Size - 1)
           rand_col == RandInt(s2, 0, Size - 1)
           blanked == SetCell(board, rand_row, rand_col, 0)
           forced == \A d \in Digits \ {board[rand_row][rand_col]} :
                        ~ is_num_valid(blanked, rand_row, rand_col, d)
       IN  /\ ~ Redraw(board[rand_row][rand_col])
           /\ rng' = s2
           /\ board' = IF forced THEN blanked ELSE board
           /\ k' = IF forced THEN k + 1 ELSE k
    /\ UNCHANGED <<pc, level, diff_chosen, x, y, nums, stack, ret, steps, seed,
                   filled, solved, result, lastop, fresh, calls, got, first, query,
                   before, put>>
    /\ UNCHANGED <<gui_vars, ref>>

remove_blank ==
    /\ pc = "remove"
    /\ Lookup(diff_chosen) # {} /\ k < BlankCount(diff_chosen)
    /\ LET s1 == RngNext(rng)
           s2 == RngNext(s1)
           rand_row == RandInt(s1, 0, Size - 1)
           rand_col == RandInt(s2, 0, Size - 1)
       IN  /\ ~ Redraw(board[rand_row][rand_col])
           /\ rng' = s2
           /\ board' = SetCell(board, rand_row, rand_col, 0)
    /\ k' = k + 1
    /\ UNCHANGED <<pc, level, diff_chosen, x, y, nums, stack, ret, steps, seed,
                   filled, solved, result, lastop, fresh, calls, got, first, query,
                   before, put>>
    /\ UNCHANGED <<gui_vars, ref>>

\* the for loop is over: _remove_random_fields and generate return
generate_return ==
    /\ pc = "remove"
    /\ Lookup(diff_chosen) # {} /\ k = BlankCount(diff_chosen)
    /\ pc' = "idle"
    /\ result' = "returned"
    /\ UNCHANGED <<board, level, diff_chosen, x, y, nums, stack, ret, steps, k,
                   rng, seed, filled, solved, lastop, fresh, calls, got, first,
                   query, before, put>>
    /\ UNCHANGED <<gui_vars, ref>>

----------------------------------------------------------------------------

Next ==
    \/ clear_board
    \/ insert_value
    \/ get_value
    \/ generate
    \/ seed_draw
    \/ fill_enter
    \/ fill_try
    \/ fill_exhausted
    \/ fill_resume
    \/ fill_return
    \/ remove_keyerror
    \/ remove_redraw
    \/ remove_blank
    \/ generate_return

Spec == Init /\ [][Next]_vars

----------------------------------------------------------------------------
(* SpecDet: a harness that runs generate only on a grid it has just        *)
(* cleared, and keeps the seed and the grid of the first run that returned *)

DetPending ==
    /\ pc = "idle" /\ result = "returned" /\ fresh /\ lastop = "generate"
    /\ first = <<>>

det_record ==
    /\ DetPending
    /\ first' = <<seed, board>>
    /\ UNCHANGED <<board, pc, level, diff_chosen, x, y, nums, stack, ret, steps,
                   k, rng, seed, filled, solved, result, lastop, fresh, calls,
                   got, query, before, put>>
    /\ UNCHANGED <<gui_vars, ref>>

det_generate == lastop \in {"init", "clear_board"} /\ generate

NextDet ==
    \/ det_record
    \/ ~DetPending /\ clear_board
    \/ ~DetPending /\ det_generate
    \/ seed_draw
    \/ fill_enter
    \/ fill_try
    \/ fill_exhausted
    \/ fill_resume
    \/ fill_return
    \/ remove_keyerror
    \/ remove_redraw
    \/ remove_blank
    \/ generate_return

SpecDet == Init /\ [][NextDet]_vars

----------------------------------------------------------------------------
(* SpecLive: generate called on a cleared grid only, and the call in       *)
(* progress keeps running: the interpreter executes the next statement of  *)
(* the running call whenever there is one.                                 *)

\* the steps of a generate call in progress
Engine ==
    \/ seed_draw
    \/ fill_enter
    \/ fill_try
    \/ fill_exhausted
    \/ fill_resume
    \/ fill_return
    \/ remove_keyerror
    \/ remove_redraw
    \/ remove_blank
    \/ generate_return

NextLive ==
    \/ clear_board
    \/ det_generate
    \/ Engine

SpecLive == Init /\ [][NextLive]_vars /\ WF_vars(Engine)

----------------------------------------------------------------------------
(* SpecRef: a caller reads the board property between the calls of         *)
(* clear_board and of generate on a cleared grid.                          *)

NextRef ==
    \/ board_get
    \/ clear_board
    \/ det_generate
    \/ Engine

SpecRef == Init /\ [][NextRef]_vars

----------------------------------------------------------------------------
(* SpecValid: _is_num_valid called on grids built with insert_value.  The  *)
(* grids start from the empty one or from one with eight digits placed in  *)
(* columns 0..7 of row 0, and are edited further with insert_value.        *)

\* row 0 holds every digit but d in columns 0..7, in ascending order
RowZeroBoard(d) ==
    [r \in Idx |-> [c \in Idx |->
        IF r = 0 /\ c < Size - 1
          THEN (IF c + 1 < d THEN c + 1 ELSE c + 2)
          ELSE 0]]

ValidCells == {<<0, 8>>, <<0, 3>>, <<4, 8>>, <<1, 7>>, <<4, 4>>}
ValidValues == {1, 9}
QueryCells == {<<0, 8>>, <<4, 4>>}

InitValid ==
    /\ board \in {ZeroBoard} \cup {RowZeroBoard(d) : d \in Digits}
    /\ pc = "idle"
    /\ level = 0
    /\ diff_chosen = 0
    /\ x = 0 /\ y = 0 /\ nums = {}
    /\ stack = <<>>
    /\ ret = "none"
    /\ steps = 0
    /\ k = 0
    /\ rng = 0
    /\ seed = 0
    /\ filled = "none"
    /\ solved = ZeroBoard
    /\ result = "none"
    /\ lastop = "init"
    /\ fresh = FALSE
    /\ calls = 0
    /\ got = {}
    /\ first = <<>>
    /\ query = <<>>
    /\ before = ZeroBoard
    /\ put = <<>>
    /\ GuiInit

valid_insert == InsertValue(ValidCells, ValidValues)

\* a call _is_num_valid(row, col, num): the grid it reads and what it returns
valid_query_marks ==
    /\ pc = "idle"
    /\ \E cell \in QueryCells, num \in Digits :
          /\ query' = <<[b |-> board, row |-> cell[1], col |-> cell[2], num |-> num,
                         res |-> is_num_valid(board, cell[1], cell[2], num)]>>
          /\ board' = SetCell(board, cell[1], cell[2], num)
    /\ UNCHANGED <<pc, level, diff_chosen, x, y, nums, stack, ret, steps,
                   k, rng, seed, filled, solved, result, lastop, fresh, calls,
                   got, first, before, put>>
    /\ UNCHANGED <<gui_vars, ref>>

valid_query ==
    /\ pc = "idle"
    /\ \E cell \in QueryCells, num \in Digits :
          query' = <<[b |-> board, row |-> cell[1], col |-> cell[2], num |-> num,
                      res |-> is_num_valid(board, cell[1], cell[2], num)]>>
    /\ UNCHANGED <<board, pc, level, diff_chosen, x, y, nums, stack, ret, steps,
                   k, rng, seed, filled, solved, result, lastop, fresh, calls,
                   got, first, before, put>>
    /\ UNCHANGED <<gui_vars, ref>>

NextValid ==
    \/ valid_insert
    \/ valid_query

SpecValid == InitValid /\ [][NextValid]_vars

----------------------------------------------------------------------------
(* SpecFill: _generate_board(0, 0) called directly on partially filled     *)
(* grids: a solved grid with some regions blanked, edited further with     *)
(* insert_value and read with get_value.                                   *)

\* a solved grid: row r is 1..9 rotated by 3 * (r % 3) + r \div 3
SolvedGrid ==
    [r \in Idx |-> [c \in Idx |-> ((Box * (r % Box) + (r \div Box) + c) % Size) + 1]]

\* the regions that may be blank at the start: rows 0 and 1, column 0, box 4
HoleRegions ==
    { {<<0, c>> : c \in Idx},
      {<<1, c>> : c \in Idx},
      {<<r, 0>> : r \in Idx},
      {<<r, c>> : r \in 3 .. 5, c \in 3 .. 5} }

FillCells == {<<0, 0>>, <<1, 4>>, <<4, 4>>}
FillValues == {0, 2}

InitFill ==
    /\ board \in { [r \in Idx |-> [c \in Idx |->
                       IF <<r, c>> \in UNION Z THEN 0 ELSE SolvedGrid[r][c]]] :
                   Z \in SUBSET HoleRegions }
    /\ pc = "idle"
    /\ level = 0
    /\ diff_chosen = 0
    /\ x = 0 /\ y = 0 /\ nums = {}
    /\ stack = <<>>
    /\ ret = "none"
    /\ steps = 0
    /\ k = 0
    /\ rng = 0
    /\ seed = 0
    /\ filled = "none"
    /\ solved = ZeroBoard
    /\ result = "none"
    /\ lastop = "init"
    /\ fresh = FALSE
    /\ calls = 0
    /\ got = {}
    /\ first = <<>>
    /\ query = <<>>
    /\ before = ZeroBoard
    /\ put = <<>>
    /\ GuiInit

fill_insert == InsertValue(FillCells, FillValues)

\* the call self._generate_board(0, 0)
generate_board_call ==
    /\ pc = "idle"
    /\ calls < MaxCalls
    /\ calls' = calls + 1
    /\ pc' = "fill"
    /\ stack' = <<Frame(0, 0, 0, "entry")>>
    /\ ret' = "none" /\ steps' = 0
    /\ filled' = "none"
    /\ before' = board
    /\ put' = <<>>
    /\ got' = {}
    /\ lastop' = "_generate_board"
    /\ UNCHANGED <<board, level, diff_chosen, x, y, nums, k, rng, seed, solved,
                   result, fresh, first, query>>
    /\ UNCHANGED <<gui_vars, ref>>

\* the outermost call returns its value to the caller
generate_board_return ==
    /\ pc = "fill" /\ stack = <<>> /\ ret # "none"
    /\ lastop = "_generate_board"
    /\ filled' = ret
    /\ ret' = "none"
    /\ pc' = "idle"
    /\ UNCHANGED <<board, level, diff_chosen, x, y, nums, stack, steps, k, rng,
                   seed, solved, result, lastop, fresh, calls, got, first, query,
                   before, put>>
    /\ UNCHANGED <<gui_vars, ref>>

NextFill ==
    \/ fill_insert
    \/ get_value
    \/ generate_board_call
    \/ fill_enter
    \/ fill_try
    \/ fill_exhausted
    \/ fill_resume
    \/ generate_board_return

SpecFill == InitFill /\ [][NextFill]_vars

----------------------------------------------------------------------------
(* Vocabulary of the properties, independent of the definitions above *)

Cells == Idx \X Idx

SameRow(p, q) == p[1] = q[1]
SameCol(p, q) == p[2] = q[2]
SameBox(p, q) == (p[1] \div 3 = q[1] \div 3) /\ (p[2] \div 3 = q[2] \div 3)
Related(p, q) == SameRow(p, q) \/ SameCol(p, q) \/ SameBox(p, q)

\* the 27 units: 9 rows, 9 columns, 9 boxes
Units ==
    {{p \in Cells : p[1] = r} : r \in Idx}
    \cup {{p \in Cells : p[2] = c} : c \in Idx}
    \cup {{p \in Cells : p[1] \div 3 = br /\ p[2] \div 3 = bc} : br \in 0 .. 2, bc \in 0 .. 2}

\* every unit holds each digit exactly once
IsSolved(b) ==
    \A U \in Units : \A d \in 1 .. 9 :
        Cardinality({p \in U : b[p[1]][p[2]] = d}) = 1

\* no digit twice among the non-zero cells of a unit
NoDuplicate(b) ==
    \A p \in Cells : b[p[1]][p[2]] # 0 =>
        \A q \in Cells : (q # p /\ Related(p, q)) => b[q[1]][q[2]] # b[p[1]][p[2]]

NonZeroCount(b) == Cardinality({p \in Cells : b[p[1]][p[2]] # 0})

AllZero(b) == \A p \in Cells : b[p[1]][p[2]] = 0

\* generate has returned normally and the grid is as it left it
Returned == pc = "idle" /\ result = "returned" /\ lastop = "generate"

----------------------------------------------------------------------------
(* Properties *)

\* C1: when generate was called on a cleared grid, the grid the seeder and
\* the filler leave (the state before removal) has each digit 1..9 exactly
\* once in every row, every column and every 3x3 box.
C1_SolvedBeforeRemoval ==
    (fresh /\ pc = "remove" /\ k = 0) => IsSolved(board)

C1_Witness ==
    fresh /\ pc = "remove" /\ k = 0 /\ seed = 2 /\ IsSolved(board)

\* C2: after clear_board(); generate(L) with L in {0,1,2,3} the number of
\* non-zero cells is 81 - blank_count(L): 46, 38, 26, 21.
C2_NonZeroAfterGenerate ==
    (Returned /\ fresh) =>
        /\ diff_chosen \in {0, 1, 2, 3}
        /\ NonZeroCount(board) = 81 - difficulty[diff_chosen]
        /\ NonZeroCount(board) = ((0 :> 46) @@ (1 :> 38) @@ (2 :> 26) @@ (3 :> 21))[diff_chosen]

C2_Witness ==
    Returned /\ fresh /\ diff_chosen = 3 /\ NonZeroCount(board) = 21

\* C3: after clear_board(); generate(L) no digit occurs twice among the
\* non-zero cells of a row, column or box, and every non-zero cell holds the
\* value it had in the solved grid just before removal.
C3_PuzzleIsThinnedSolution ==
    (Returned /\ fresh) =>
        /\ NoDuplicate(board)
        /\ IsSolved(solved)
        /\ \A p \in Cells : board[p[1]][p[2]] \in {0, solved[p[1]][p[2]]}

C3_Witness ==
    /\ Returned /\ fresh /\ diff_chosen = 0
    /\ NoDuplicate(board)
    /\ \E p \in Cells : board[p[1]][p[2]] = 0 /\ solved[p[1]][p[2]] # 0
    /\ \E p \in Cells : board[p[1]][p[2]] # 0 /\ board[p[1]][p[2]] = solved[p[1]][p[2]]

\* does num occur in the row, the column or the box of (row, col), at a cell
\* other than (row, col) / at any cell
OccursElsewhere(b, row, col, num) ==
    \E q \in Cells : q # <<row, col>> /\ Related(<<row, col>>, q) /\ b[q[1]][q[2]] = num

OccursAnywhere(b, row, col, num) ==
    \E q \in Cells : Related(<<row, col>>, q) /\ b[q[1]][q[2]] = num

\* C4: _is_num_valid(row, col, value) is False iff value occurs in the row,
\* the column or the box at a cell other than (row, col); an occurrence at
\* (row, col) itself does not make it False.
C4_FalseIffOccursElsewhere ==
    \A i \in 1 .. Len(query) :
        LET q == query[i]
        IN  (q.res = FALSE) <=> OccursElsewhere(q.b, q.row, q.col, q.num)

\* C5: on a zero cell, _is_num_valid(row, col, v) is True exactly when v
\* occurs nowhere in the row, the column or the box; with eight distinct
\* digits in columns 0..7 of row 0 and (0, 8) empty it is False at (0, 8)
\* for each placed digit, True only for the missing digit, and False for
\* that digit too when it occurs in column 8 or in the box of (0, 8).
RowZeroPlaced(b) == {b[0][c] : c \in 0 .. 7}

C5_ValidOnEmptyCell ==
    \A i \in 1 .. Len(query) :
        LET q == query[i]
        IN  q.b[q.row][q.col] = 0 =>
              /\ q.res <=> ~ OccursElsewhere(q.b, q.row, q.col, q.num)
              /\ (q.row = 0 /\ q.col = 8 /\ RowZeroPlaced(q.b) \subseteq 1 .. 9
                    /\ Cardinality(RowZeroPlaced(q.b)) = 8) =>
                    /\ q.num \in RowZeroPlaced(q.b) => ~ q.res
                    /\ q.res => {q.num} = (1 .. 9) \ RowZeroPlaced(q.b)
                    /\ (\E r \in 1 .. 8 : q.b[r][8] = q.num) => ~ q.res
                    /\ (\E r \in 1 .. 2, c \in 6 .. 8 : q.b[r][c] = q.num) => ~ q.res

\* the missing digit is accepted at (0, 8) of a grid whose column 8 was edited
C5_Witness ==
    /\ query # <<>>
    /\ LET q == query[1]
       IN  /\ q.row = 0 /\ q.col = 8 /\ q.b[0][8] = 0
           /\ Cardinality(RowZeroPlaced(q.b)) = 8 /\ ~ (0 \in RowZeroPlaced(q.b))
           /\ q.b[4][8] # 0
           /\ q.res

\* C6: generate(level) with a level outside {0,1,2,3} ends with an error: it
\* never returns normally and never blanks a cell.
C6_UnknownLevelRaises ==
    (lastop = "generate" /\ ~ (diff_chosen \in {0, 1, 2, 3})) =>
        /\ result # "returned"
        /\ pc = "idle" => result = "KeyError"
        /\ k = 0
        /\ pc \in {"remove", "idle"} => board = solved

C6_Witness ==
    lastop = "generate" /\ diff_chosen = 4 /\ pc = "idle" /\ result = "KeyError"

\* C7: if _generate_board(0, 0) reports failure to generate, generate
\* reports an error: it does not run the remover on the unfilled grid and
\* does not return normally.
C7_FailureIsReported ==
    (lastop = "generate" /\ filled = "False") => (k = 0 /\ result # "returned")

\* C8: after any sequence of clear_board, generate and insert_value calls, a
\* generate(L) with configured L returns with exactly 81 - blank_count(L)
\* non-zero cells and with no digit repeated in a row, column or box.
C8_PostconditionFromAnyState ==
    Returned =>
        /\ NonZeroCount(board) = 81 - difficulty[diff_chosen]
        /\ NoDuplicate(board)

\* C9: from every state clear_board() leaves all 81 cells zero, and a second
\* clear_board() leaves that same grid.
C9_ClearBoardZeroes ==
    [][clear_board =>
          /\ AllZero(board')
          /\ (lastop = "clear_board" => board' = board)]_vars

\* cleared after a generate had returned a puzzle
C9_Witness ==
    lastop = "clear_board" /\ result = "returned" /\ AllZero(board) /\ ~ AllZero(solved)

Fits(b, p, d) ==
    \A q \in Cells : (q # p /\ Related(p, q)) => b[q[1]][q[2]] # d

\* some assignment of digits to the zero cells of b makes it solved
RECURSIVE HasCompletion(_)
HasCompletion(b) ==
    IF \A p \in Cells : b[p[1]][p[2]] # 0
      THEN IsSolved(b)
      ELSE LET p == CHOOSE p \in Cells : b[p[1]][p[2]] = 0
           IN  \E d \in 1 .. 9 :
                  Fits(b, p, d) /\ HasCompletion([b EXCEPT ![p[1]][p[2]] = d])

\* C11: _generate_board(0, 0), started on a grid whose non-zero cells repeat
\* no digit in a row, column or box, runs to its end and returns True
\* exactly when the grid has a completion, and False exactly when it has
\* none; when it returns True the grid is a completion of the start grid:
\* no cell is zero and every row, column and box is a permutation of 1..9.
C11_FillerDecidesCompletion ==
    /\ (lastop = "_generate_board" /\ pc = "fill" /\ steps >= MaxFillSteps)
          => ~ NoDuplicate(before)
    /\ (lastop = "_generate_board" /\ pc = "idle" /\ NoDuplicate(before)) =>
          /\ filled \in {"True", "False"}
          /\ (filled = "True") <=> HasCompletion(before)
          /\ (filled = "False") <=> ~ HasCompletion(before)
          /\ filled = "True" =>
                /\ \A p \in Cells : board[p[1]][p[2]] # 0
                /\ IsSolved(board)
                /\ \A p \in Cells :
                      before[p[1]][p[2]] # 0 => board[p[1]][p[2]] = before[p[1]][p[2]]

\* the filler has returned False after a long search on a consistent grid
\* that has no completion
C11_Witness ==
    /\ lastop = "_generate_board" /\ pc = "idle"
    /\ filled = "False" /\ steps > 400
    /\ NoDuplicate(before)
    /\ ~ HasCompletion(before)

\* C12: on every grid the seeder leaves from an all-zero grid the filler
\* runs to its end and _generate_board(0, 0) returns True: after
\* clear_board(); generate(L) the top-level value is never False.
C12_FreshFillSucceeds ==
    /\ (fresh /\ pc = "fill") =>
          /\ steps < MaxFillSteps
          /\ stack = <<>> => ret = "True"
    /\ (fresh /\ lastop = "generate" /\ pc \in {"remove", "idle"}) => filled = "True"

C12_Witness ==
    fresh /\ lastop = "generate" /\ pc = "remove" /\ k = 0 /\ seed = 1 /\ filled = "True"

\* the cells of the three diagonal boxes
DiagBox(n) == {p \in Cells : p[1] \div 3 = n /\ p[2] \div 3 = n}
DiagCells == DiagBox(0) \cup DiagBox(1) \cup DiagBox(2)

\* C13: when _generate_diagonals has run on an all-zero grid, each of the
\* three diagonal boxes holds every digit 1..9 exactly once; no draw of the
\* seeder can fail: each is made from a non-empty set, for a cell of the grid.
C13_SeederFillsDiagonals ==
    /\ (pc = "fill" /\ steps = 0 /\ fresh) =>
          \A n \in 0 .. 2 : \A d \in 1 .. 9 :
              Cardinality({p \in DiagBox(n) : board[p[1]][p[2]] = d}) = 1
    /\ pc = "seed" => (nums # {} /\ nums \subseteq 1 .. 9 /\ <<x, y>> \in DiagCells)

C13_Witness ==
    /\ pc = "fill" /\ steps = 0 /\ fresh /\ seed = 0
    /\ \A p \in DiagCells : board[p[1]][p[2]] # 0

\* C14: _generate_diagonals writes only cells of the three diagonal boxes:
\* during and after the seeder each of the other 54 cells holds the value it
\* had when generate was called (zero on a cleared grid).
C14_SeederWritesDiagonalOnly ==
    ((pc = "seed" \/ (pc = "fill" /\ steps = 0)) /\ lastop = "generate") =>
        /\ \A p \in Cells \ DiagCells : board[p[1]][p[2]] = before[p[1]][p[2]]
        /\ Cardinality(Cells \ DiagCells) = 54
        /\ fresh => \A p \in Cells \ DiagCells : board[p[1]][p[2]] = 0

\* the seeder has run on a grid that held a puzzle: cells outside the
\* diagonal boxes are still non-zero
C14_Witness ==
    /\ pc = "fill" /\ steps = 0 /\ lastop = "generate" /\ ~ fresh
    /\ \E p \in Cells \ DiagCells : board[p[1]][p[2]] # 0
    /\ \E p \in DiagCells : board[p[1]][p[2]] # before[p[1]][p[2]]

\* the cells whose value differs from the one at the remover's entry
Removed == {p \in Cells : board[p[1]][p[2]] # solved[p[1]][p[2]]}

\* C15: _remove_random_fields(L) with configured L, when it returns, has set
\* to zero exactly blank_count(L) distinct cells that were non-zero at its
\* entry and has left every other cell as it was; while it runs, the number
\* of cells blanked so far is the number of finished iterations, so a draw
\* of a zero cell is never counted.
C15_RemoverBlanksExactly ==
    /\ (pc = "remove" /\ Lookup(diff_chosen) # {}) =>
          /\ Cardinality(Removed) = k
          /\ \A p \in Removed : solved[p[1]][p[2]] # 0 /\ board[p[1]][p[2]] = 0
    /\ Returned =>
          /\ Cardinality(Removed) = difficulty[diff_chosen]
          /\ \A p \in Removed : solved[p[1]][p[2]] # 0 /\ board[p[1]][p[2]] = 0
          /\ NonZeroCount(solved) >= difficulty[diff_chosen]

\* the remover has returned on a grid that had zero cells at its entry
C15_Witness ==
    /\ Returned /\ filled = "False" /\ diff_chosen = 0
    /\ Cardinality(Removed) = 35
    /\ \E p \in Cells : solved[p[1]][p[2]] = 0

\* C16: every generate(L) with configured L on an all-zero grid eventually
\* returns: the seeder ends, the filler's search ends, and every rejection
\* loop of the remover ends with a non-zero cell, so the remover returns.
C16_GenerateReturns ==
    (pc = "seed" /\ fresh /\ diff_chosen \in DOMAIN difficulty)
        ~> (pc = "idle" /\ result = "returned")

\* the second generate of a behaviour has returned a level 2 puzzle
C16_Witness ==
    Returned /\ fresh /\ diff_chosen = 2 /\ calls = 2 /\ NonZeroCount(board) = 26

\* C17: insert_value(row, col, value) sets cell (row, col) to value,
\* whatever the row, column and box already hold, and changes no other
\* cell; get_value(row, col) returns the cell's current value and changes
\* nothing, so directly after insert_value(row, col, v) it returns v.
C17_InsertThenGet ==
    [][/\ (lastop' = "insert_value" /\ calls' = calls + 1) =>
             /\ Len(put') = 3
             /\ board'[put'[1]][put'[2]] = put'[3]
             /\ \A p \in Cells :
                   p # <<put'[1], put'[2]>> => board'[p[1]][p[2]] = board[p[1]][p[2]]
       /\ (got' # got /\ got' # {}) =>
             /\ board' = board
             /\ \A g \in got' :
                   /\ g[3] = board[g[1]][g[2]]
                   /\ (lastop = "insert_value" /\ g[1] = put[1] /\ g[2] = put[2])
                         => g[3] = put[3]]_vars

\* 2 was inserted at (4, 4) of a grid that has a 2 elsewhere in row 4, in
\* column 4 and in box 4, and read back
C17_Witness ==
    /\ lastop = "insert_value" /\ put = <<4, 4, 2>>
    /\ \E c \in Idx : c # 4 /\ board[4][c] = 2
    /\ \E rr \in Idx : rr # 4 /\ board[rr][4] = 2
    /\ \E p \in Cells : p # <<4, 4>> /\ SameBox(p, <<4, 4>>) /\ board[p[1]][p[2]] = 2
    /\ got = {<<4, 4, 2>>}

\* C18: _is_num_valid is pure: whatever the grid, the arguments and the
\* result, the grid after a call (a step that records a call in query) is
\* the grid before it.
C18_ValidityCheckIsPure ==
    [][query' # query => (board' = board /\ query'[1].b = board')]_vars

\* the predicate has answered False on a grid edited twice, which is as the
\* call found it
C18_Witness ==
    /\ query # <<>> /\ query[1].res = FALSE
    /\ calls = 2 /\ ~ AllZero(board)
    /\ board = query[1].b

\* C19: generate with a level outside {0,1,2,3} raises its error before the
\* seeder or the filler has changed a cell: from the call on, and after the
\* failed call, the grid is the grid before the call.
C19_UnknownLevelLeavesGrid ==
    (lastop = "generate" /\ ~ (diff_chosen \in {0, 1, 2, 3})) => board = before

\* the cell the remover draws next: rand_row, then rand_col
DrawnCell ==
    <<RandInt(RngNext(rng), 0, 8), RandInt(RngNext(RngNext(rng)), 0, 8)>>

\* b with the values of the corners of a rectangle exchanged within its rows
Twin(b, r1, r2, c1, c2) ==
    [b EXCEPT ![r1][c1] = b[r1][c2], ![r1][c2] = b[r1][c1],
              ![r2][c1] = b[r2][c2], ![r2][c2] = b[r2][c1]]

\* full agrees with puzzle on the non-zero cells of puzzle
Extends(full, puzzle) ==
    \A p \in Cells : puzzle[p[1]][p[2]] # 0 => full[p[1]][p[2]] = puzzle[p[1]][p[2]]

\* C20: the remover makes no uniqueness or solvability check: each of its
\* iterations blanks the drawn cell if it is non-zero, whatever that leaves,
\* and otherwise changes nothing and draws again; so a puzzle returned by
\* clear_board(); generate(L) can have more than one completion.
C20_RemoverBlanksAnyNonZeroDraw ==
    [][(pc = "remove" /\ pc' = "remove") =>
          LET p == DrawnCell
          IN  IF board[p[1]][p[2]] # 0
                THEN board' = [board EXCEPT ![p[1]][p[2]] = 0] /\ k' = k + 1
                ELSE board' = board /\ k' = k]_vars

\* a returned puzzle with two completions: the solved grid it was thinned
\* from, and that grid with the corners of a blanked rectangle exchanged
C20_Witness ==
    /\ Returned /\ fresh
    /\ \E r1 \in Idx, r2 \in Idx, c1 \in Idx, c2 \in Idx :
          /\ r1 < r2 /\ c1 < c2
          /\ board[r1][c1] = 0 /\ board[r1][c2] = 0
          /\ board[r2][c1] = 0 /\ board[r2][c2] = 0
          /\ solved[r1][c1] = solved[r2][c2] /\ solved[r1][c2] = solved[r2][c1]
          /\ Twin(solved, r1, r2, c1, c2) # solved
          /\ IsSolved(solved) /\ Extends(solved, board)
          /\ IsSolved(Twin(solved, r1, r2, c1, c2))
          /\ Extends(Twin(solved, r1, r2, c1, c2), board)

\* in each unit the non-zero cells hold pairwise different digits
Consistent(b) ==
    \A U \in Units :
        Cardinality({b[p[1]][p[2]] : p \in U} \ {0})
            = Cardinality({p \in U : b[p[1]][p[2]] # 0})

\* C21: while _generate_board runs on a grid whose non-zero cells repeated
\* no digit in a row, column or box when it was called, no intermediate grid
\* (after a placement, after an undo, between calls) repeats a digit among
\* the non-zero cells of a row, column or box.
C21_FillerKeepsGridConsistent ==
    (lastop = "_generate_board" /\ pc = "fill") =>
        (Consistent(board) \/ ~ Consistent(before))

\* mid-backtrack: a call deep in the search has just returned False
C21_Witness ==
    /\ lastop = "_generate_board" /\ pc = "fill"
    /\ ret = "False" /\ Len(stack) > 5
    /\ \E n \in 1 .. Len(stack) : stack[n].at = "rec"
    /\ Consistent(before) /\ NoDuplicate(before)
    /\ Consistent(board) /\ NoDuplicate(board)

\* cell q comes before cell p in row-major order
RowMajorBefore(q, p) == q[1] < p[1] \/ (q[1] = p[1] /\ q[2] < p[2])

\* the start grid, with the cells that were empty and come before p filled
\* as in final
PrefixGrid(start, final, p) ==
    [r \in 0 .. 8 |-> [c \in 0 .. 8 |->
        IF start[r][c] # 0 THEN start[r][c]
        ELSE IF RowMajorBefore(<<r, c>>, p) THEN final[r][c]
        ELSE 0]]

\* no completion of start agrees with final on the empty cells before some
\* empty cell p and holds a smaller digit at p
LexLeast(start, final) ==
    \A p \in Cells : start[p[1]][p[2]] = 0 =>
        \A d \in 1 .. (final[p[1]][p[2]] - 1) :
            LET g == PrefixGrid(start, final, p)
            IN  ~ (Fits(g, p, d) /\ HasCompletion([g EXCEPT ![p[1]][p[2]] = d]))

\* C22: _generate_board visits the cells in row-major order and tries 1..9
\* in ascending order: started on a consistent grid that has a completion it
\* ends with the completion that is lexicographically least on the
\* originally empty cells read in row-major order; the search stops at the
\* first success: the grid at the moment the call for (8, 9) has returned
\* True is already that completion, and from then on no cell is empty.
C22_FirstCompletionInOrder ==
    /\ (lastop = "_generate_board" /\ pc = "fill" /\ ret = "True") =>
          /\ \A p \in Cells : board[p[1]][p[2]] # 0
          /\ \A n \in 1 .. Len(stack) : stack[n].at \in {"skip", "rec"}
          /\ (Len(stack) = 81 /\ Consistent(before)) =>
                /\ IsSolved(board) /\ Extends(board, before)
                /\ LexLeast(before, board)
    /\ (lastop = "_generate_board" /\ pc = "idle" /\ filled = "True"
          /\ Consistent(before)) =>
          /\ IsSolved(board) /\ Extends(board, before)
          /\ LexLeast(before, board)

\* the filler has returned a completion of a grid that has another one in
\* which the first differing cell holds a larger digit
C22_Witness ==
    /\ lastop = "_generate_board" /\ pc = "idle" /\ filled = "True"
    /\ Consistent(before)
    /\ \E p \in Cells : \E d \in 1 .. 9 :
          /\ before[p[1]][p[2]] = 0 /\ d > board[p[1]][p[2]]
          /\ Fits(PrefixGrid(before, board, p), p, d)
          /\ HasCompletion([PrefixGrid(before, board, p) EXCEPT ![p[1]][p[2]] = d])

\* C23: _generate_board never changes a cell that was non-zero when it was
\* called: at every point of the search and after it, in success and in
\* failure, the cell holds the value it had; such a cell is skipped (its
\* frame waits for the call of line 70) and only cells that were empty get a
\* frame that tries candidates.
C23_GivenCellsUntouched ==
    lastop = "_generate_board" =>
        /\ \A p \in Cells :
              before[p[1]][p[2]] # 0 => board[p[1]][p[2]] = before[p[1]][p[2]]
        /\ \A n \in 1 .. Len(stack) :
              /\ stack[n].at \in {"loop", "rec"} => before[stack[n].i][stack[n].j] = 0
              /\ stack[n].at = "skip" => before[stack[n].i][stack[n].j] # 0

\* a search with backtracking has ended in success on a grid that had given
\* cells and empty cells
C23_Witness ==
    /\ lastop = "_generate_board" /\ pc = "idle" /\ filled = "True" /\ steps > 300
    /\ \E p \in Cells : before[p[1]][p[2]] # 0 /\ board[p[1]][p[2]] = before[p[1]][p[2]]
    /\ \E p \in Cells : before[p[1]][p[2]] = 0 /\ board[p[1]][p[2]] # 0

\* the grid given by the calls in progress: the start grid with, at the cell
\* of every frame waiting for its recursive call (line 77), the candidate
\* that frame has placed
GridOf(stk, start) ==
    [r \in 0 .. 8 |-> [c \in 0 .. 8 |->
        IF \E n \in 1 .. Len(stk) : stk[n].at = "rec" /\ stk[n].i = r /\ stk[n].j = c
          THEN stk[CHOOSE n \in 1 .. Len(stk) :
                      stk[n].at = "rec" /\ stk[n].i = r /\ stk[n].j = c].num
          ELSE start[r][c]]]

\* C24: when a call _generate_board(i, j) returns False the grid is the grid
\* at the moment that call started: a call starts, and returns False, on the
\* grid its callers have built (the start grid plus the candidates of the
\* frames in progress), so every cell the call and its sub-calls placed is
\* zero again; a top-level failure leaves the grid as it was given.
C24_FailureRestoresGrid ==
    /\ (lastop = "_generate_board" /\ pc = "fill" /\ ret = "none" /\ stack # <<>>) =>
          (Top.at = "entry" => board = GridOf(Pop, before))
    /\ (lastop = "_generate_board" /\ pc = "fill" /\ ret = "False") =>
          board = GridOf(stack, before)
    /\ (lastop = "_generate_board" /\ pc = "idle" /\ filled = "False") =>
          board = before

\* a top-level failure after a search that placed and removed candidates
C24_Witness ==
    /\ lastop = "_generate_board" /\ pc = "idle" /\ filled = "False"
    /\ steps > 200
    /\ board = before /\ ~ AllZero(board)
    /\ \E p \in Cells : board[p[1]][p[2]] = 0

\* C25: _remove_random_fields(L) returns only after it has zeroed
\* blank_count(L) cells that were non-zero; started on a grid with fewer
\* non-zero cells than blank_count(L) it never returns: it zeroes at most
\* the cells there are and stays in its rejection loop.
C25_RemoverNeedsEnoughCells ==
    /\ (lastop = "generate" /\ pc = "idle" /\ result = "returned") =>
          /\ k = difficulty[diff_chosen]
          /\ Cardinality(Removed) = k
          /\ \A p \in Removed : solved[p[1]][p[2]] # 0
    /\ (lastop = "generate" /\ pc \in {"remove", "idle"} /\ filled # "none"
          /\ Lookup(diff_chosen) # {}
          /\ NonZeroCount(solved) < BlankCount(diff_chosen)) =>
          /\ pc = "remove" /\ result = "none"
          /\ k <= NonZeroCount(solved)
          /\ k < BlankCount(diff_chosen)

\* the remover has zeroed every cell of a grid that had fewer non-zero cells
\* than it has to blank, and is in its rejection loop
C25_Witness ==
    /\ lastop = "generate" /\ pc = "remove"
    /\ AllZero(board)
    /\ k = NonZeroCount(solved)
    /\ k < BlankCount(diff_chosen)

\* C26: from _generate_board(0, 0) on, every call has 0 <= i <= 8 and
\* 0 <= j <= 9, and a frame that has gone past the wrap of lines 64-66 (the
\* only ones that read or write a cell) has both indices in 0..8; success is
\* first reported exactly by the call whose cursor is (8, 9), and that call
\* places nothing.
C26_CursorStaysInGrid ==
    [][/\ \A n \in 1 .. Len(stack') :
             /\ stack'[n].i \in 0 .. 8 /\ stack'[n].j \in 0 .. 9
             /\ stack'[n].at # "entry" => stack'[n].j \in 0 .. 8
       /\ (ret = "none" /\ ret' = "True") =>
             /\ Top.at = "entry" /\ Top.i = 8 /\ Top.j = 9
             /\ board' = board
       /\ (pc = "fill" /\ steps' = steps + 1 /\ ret = "none"
             /\ Top.at = "entry" /\ Top.i = 8 /\ Top.j = 9) =>
             /\ ret' = "True"
             /\ board' = board]_vars

\* the call for (8, 9) has just returned True to the frame of cell (8, 8),
\* below frames that wrapped from column 9 to the next row
C26_Witness ==
    /\ lastop = "_generate_board" /\ pc = "fill" /\ ret = "True"
    /\ Len(stack) = 81
    /\ Top.i = 8 /\ Top.j = 8
    /\ \A n \in 1 .. 81 : stack[n].i = (n - 1) \div 9 /\ stack[n].j = (n - 1) % 9
    /\ \E p \in Cells : before[p[1]][p[2]] = 0

----------------------------------------------------------------------------
(* The game screen of src/sudoku_gui.py: SudokuGUI owns one Sudoku engine, *)
(* builds its squares from the generated grid and edits the squares, never *)
(* the engine.  Of a square the fields value, notes, editable and is_wrong *)
(* are kept, with its row and col; rect, color, selected, at_intersection  *)
(* and same_value only steer the drawing; the squares whose selected flag  *)
(* is set are kept in shown.  The arrow keys, the notes button and the     *)
(* exit button are left out.                                               *)

\* key codes of pygame
K_BACKSPACE == 8
K_TAB == 9
K_SPACE == 32
K_DELETE == 127
K_1 == 49
K_KP_1 == 1073741913

\* self._PY_TO_NUM
PY_TO_NUM ==
    [key \in {K_1 + n - 1 : n \in Digits} \cup {K_KP_1 + n - 1 : n \in Digits} |->
        IF key < K_KP_1 THEN key - K_1 + 1 ELSE key - K_KP_1 + 1]

\* self._NUM_TO_PY: the inverse dictionary keeps the key inserted last
NUM_TO_PY ==
    [n \in Digits |-> CHOOSE key \in DOMAIN PY_TO_NUM :
        /\ PY_TO_NUM[key] = n
        /\ \A other \in DOMAIN PY_TO_NUM : PY_TO_NUM[other] = n => other <= key]

\* a function written out as the table of its values (the lists of the code)
Table(f) == f @@ <<>>

\* SudokuSquare(row=row, col=col, value=value)
SudokuSquareAllEditable(row, col, value) ==
    [row |-> row, col |-> col, value |-> value, notes |-> <<>>,
     editable |-> TRUE, is_wrong |-> FALSE]

SudokuSquare(row, col, value) ==
    [row |-> row, col |-> col, value |-> value, notes |-> <<>>,
     editable |-> (value = 0), is_wrong |-> FALSE]

\* Move(prev_number, prev_notes, row, col)
Move(prev_number, prev_notes, row, col) ==
    [prev_number |-> prev_number, prev_notes |-> prev_notes, row |-> row, col |-> col]

\* the list comprehension of _generate_board: _rects[j][i] is the square of
\* row i and column j, its value read with get_value(i, j)
MakeRects(b) == Table([j \in Idx |-> Table([i \in Idx |-> SudokuSquare(i, j, b[i][j])])])

\* _get_square(row, col)
get_square(r, row, col) == r[col][row]

\* the square whose rect lies in column col and row row of the drawn board
SquareAt(r, row, col) == r[col][row]

\* r with the square at the place of sq replaced by sq
PutSquare(r, sq) == [r EXCEPT ![sq.col][sq.row] = sq]

\* num in notes; notes.remove(num); notes.append(num)
InList(num, notes) == \E n \in 1 .. Len(notes) : notes[n] = num

ListRemove(notes, num) ==
    LET n == CHOOSE n \in 1 .. Len(notes) :
                 notes[n] = num /\ \A m \in 1 .. (n - 1) : notes[m] # num
    IN  SubSeq(notes, 1, n - 1) \o SubSeq(notes, n + 1, Len(notes))

\* _check_if_intersects(square, other)
check_if_intersects(square, other) ==
    LET start_row == Box * (square.row \div Box)
        start_col == Box * (square.col \div Box)
    IN  \/ square.row = other.row
        \/ square.col = other.col
        \/ /\ other.row \in start_row .. (start_row + Box - 1)
           /\ other.col \in start_col .. (start_col + Box - 1)

\* the places <<row, col>> of the squares that intersect the square at a place
Intersecting ==
    Table([p \in Idx \X Idx |->
        {o : o \in {q \in Idx \X Idx :
                      check_if_intersects([row |-> p[1], col |-> p[2]],
                                          [row |-> q[1], col |-> q[2]])}}])

\* _clear_notes(square)
clear_notes(r, square) ==
    Table([j \in Idx |-> Table([i \in Idx |->
        IF /\ r[j][i].notes # <<>>
           /\ <<r[j][i].row, r[j][i].col>> \in Intersecting[<<square.row, square.col>>]
           /\ InList(square.value, r[j][i].notes)
          THEN [r[j][i] EXCEPT !.notes = ListRemove(r[j][i].notes, square.value)]
          ELSE r[j][i]])])

\* _reset_state(ignore_wrong)
reset_state(r, ignore_wrong) ==
    IF ignore_wrong THEN r
    ELSE Table([j \in Idx |-> Table([i \in Idx |-> [r[j][i] EXCEPT !.is_wrong = FALSE]])])

\* _check_if_correct()
check_if_correct(r) ==
    Table([j \in Idx |-> Table([i \in Idx |->
        IF /\ r[j][i].value # 0
           /\ ~ r[j][i].is_wrong
           /\ \E q \in Intersecting[<<i, j>>] :
                 /\ r[q[2]][q[1]].value = r[j][i].value
                 /\ q # <<i, j>>
          THEN [r[j][i] EXCEPT !.is_wrong = TRUE]
          ELSE r[j][i]])])

\* _check_completion()
check_completion(r) ==
    {n \in Digits :
        Cardinality({<<j, i>> \in Idx \X Idx :
                        r[j][i].value = n /\ ~ r[j][i].is_wrong}) = Size}

\* _check_win()
check_win_but_one(r) == Cardinality(check_completion(r)) >= Size - 1

check_win(r) == Cardinality(check_completion(r)) = Size

\* _undo_move(): the squares and the moves it leaves
undo_move(r, moves) ==
    IF moves = <<>>
      THEN [rects |-> r, last_moves |-> moves]                \* IndexError: return
      ELSE LET last_move == moves[Len(moves)]
               sq == get_square(r, last_move.row, last_move.col)
           IN  [rects |-> PutSquare(r, [sq EXCEPT !.notes = last_move.prev_notes,
                                                  !.value = last_move.prev_number]),
                last_moves |-> SubSeq(moves, 1, Len(moves) - 1)]

\* what _key_press_handler leaves when it changes no square
NoEdit(nm, pa) ==
    [rects |-> rects, last_moves |-> last_moves, notes_mode |-> nm, paused |-> pa]

\* _key_press_handler(key, selected_index) with ignore_arrows = True: the
\* squares, the moves, the notes mode and the pause flag it leaves (it returns
\* selected_index itself, through _move_selected with offset (0, 0))
key_press_handler(key, sel) ==
    LET pa == IF key = K_SPACE THEN ~ paused ELSE paused                 \* 929-930
        nm == IF key # K_SPACE /\ key = K_TAB THEN ~ notes_mode ELSE notes_mode
    IN  IF sel = <<-1, -1>> \/ pa THEN NoEdit(nm, pa)                    \* 933, 986
        ELSE
        LET sq == get_square(rects, sel[1], sel[2])
            move(prev_number, prev_notes) ==
                Append(last_moves, Move(prev_number, prev_notes, sq.row, sq.col))
        IN  IF key \in DOMAIN PY_TO_NUM
              THEN LET num == PY_TO_NUM[key]
                   IN  IF ~ sq.editable THEN NoEdit(nm, pa)
                       ELSE IF ~ nm
                         THEN \* value writing, lines 954-960
                              LET written == [sq EXCEPT !.value = num, !.notes = <<>>]
                              IN  [rects |-> reset_state(
                                      clear_notes(PutSquare(rects, written), written),
                                      FALSE),
                                   last_moves |-> move(sq.value, sq.notes),
                                   notes_mode |-> nm, paused |-> pa]
                       ELSE IF ~ InList(num, sq.notes) /\ sq.value = 0
                         THEN \* lines 963-967
                              [rects |-> PutSquare(rects,
                                      [sq EXCEPT !.notes = Append(sq.notes, num)]),
                               last_moves |-> move(sq.value, sq.notes),
                               notes_mode |-> nm, paused |-> pa]
                       ELSE IF InList(num, sq.notes) /\ sq.value = 0
                         THEN \* lines 968-972
                              [rects |-> PutSquare(rects,
                                      [sq EXCEPT !.notes = ListRemove(sq.notes, num)]),
                               last_moves |-> move(sq.value, sq.notes),
                               notes_mode |-> nm, paused |-> pa]
                       ELSE NoEdit(nm, pa)
            ELSE IF key = K_BACKSPACE \/ key = K_DELETE
              THEN IF ~ sq.editable THEN NoEdit(nm, pa)
                   ELSE \* lines 976-983: the notes are cleared before they are copied
                        [rects |-> reset_state(
                                PutSquare(rects, [sq EXCEPT !.notes = <<>>, !.value = 0]),
                                FALSE),
                         last_moves |-> move(sq.value, <<>>),
                         notes_mode |-> nm, paused |-> pa]
            ELSE NoEdit(nm, pa)

\* lines 929-930 of _key_press_handler: the timer and the running time the
\* space key leaves
key_press_timer(key) ==
    IF key = K_SPACE
      THEN IF paused THEN timer_unpause(timer, ticks) ELSE timer_pause(timer, ticks)
      ELSE timer

key_press_ran(key) ==
    IF key = K_SPACE
      THEN IF paused THEN ran_start(ran) ELSE ran_end(ran)
      ELSE ran

\* lines 984-985 of _key_press_handler, with the pause flag pa it left:
\* _reset_state clears every selected flag and _move_selected with offset
\* (0, 0) sets the flag of the square at selected_index
key_press_shown(pa, sel) == IF sel # <<-1, -1>> /\ ~ pa THEN {sel} ELSE shown

----------------------------------------------------------------------------
(* The player.  A game is played in two stretches.  While an empty square  *)
(* outside the free squares is left, the player clicks the first such      *)
(* square in row-major order and types its digit of the solution (after    *)
(* leaving the notes mode, if it is on).  Then the player clicks among the *)
(* free squares (the last MaxFree editable ones) and the last given        *)
(* square, and presses Tab, Backspace, the digits of the free squares and  *)
(* the digits after them, the numpad, Erase and Undo, until MaxPresses     *)
(* editing events have been made.  Every frame of the game loop takes one  *)
(* event, or none right after the board came up.  The game is left for the *)
(* menu only before the first move, and a new game is started only with no *)
(* square selected: the squares of a left game would otherwise be carried  *)
(* through every step of the next generation.                              *)

\* the difficulty buttons: enumerate(self._diff_btns)
diff_btns == 0 .. 3

Rank(p) == Size * p[1] + p[2]

\* the player of a game with squares r: the free squares, the digits pressed
\* on them, the last given square, the other editable squares
Player(r) ==
    LET E == {p \in Idx \X Idx : r[p[2]][p[1]].editable}
        F == {p \in E : Cardinality({q \in E : Rank(q) > Rank(p)}) < MaxFree}
        G == (Idx \X Idx) \ E
    IN  [free |-> F,
         digits |-> {solved[p[1]][p[2]] : p \in F}
                       \cup {(solved[p[1]][p[2]] % Size) + 1 : p \in F},
         given |-> {p \in G : \A q \in G : Rank(q) <= Rank(p)},
         first |-> E \ F]

\* the first empty square outside the free ones, if there is one
NextSquare ==
    LET E == {p \in player.first : rects[p[2]][p[1]].value = 0}
    IN  {p \in E : \A q \in E : Rank(p) <= Rank(q)}

\* the stretch of free play, and whether one more editing event fits
FreePlay == \A p \in player.first : rects[p[2]][p[1]].value # 0
MayPress == FreePlay /\ presses < MaxPresses

ClickSquares ==
    IF ~ FreePlay THEN NextSquare
    ELSE IF MayPress THEN player.free \cup player.given
    ELSE {}

KeyInputs ==
    IF ~ FreePlay
      THEN IF notes_mode THEN {K_TAB}
           ELSE {K_1 + solved[p[1]][p[2]] - 1 : p \in NextSquare \cap {selected_index}}
      ELSE IF MayPress
             THEN {K_1 + d - 1 : d \in player.digits} \cup {K_BACKSPACE, K_TAB}
             ELSE {}

\* the game loop runs, and its board has been drawn since the menu was left
Entered == event.kind \in {"difficulty", "continue"}
InGame == "game" \in current /\ pass.loop = "none" /\ gpc = "loop" /\ ~ Entered

----------------------------------------------------------------------------
(* _menu_loop *)

\* Screen.end_current() and Screen.make_current() on the screens of s
end_current(s, screen) == s \ {screen}
make_current(s, screen) == s \cup {screen}

\* a click on the new game button
menu_new_game ==
    /\ "menu" \in current /\ pass.loop = "none" /\ gpc = "loop" /\ ~ faded_diff_choice
    /\ calls < MaxCalls /\ selected_index = <<-1, -1>>
    /\ faded_diff_choice' = TRUE
    /\ stats_to_save' = TRUE
    /\ last_moves' = <<>>
    /\ event' = [kind |-> "new_game"]
    /\ UNCHANGED <<rects, selected_index, notes_mode, scr, faded_win, continue,
                   paused, gui_difficulty, clickable, gpc, presses, player>>
    /\ UNCHANGED <<timer, ticks, ran, current, pass, shown, stats, menu_btns>>
    /\ UNCHANGED <<engine_vars, ref>>

\* Escape closes the difficulty choice
menu_escape ==
    /\ "menu" \in current /\ pass.loop = "none" /\ gpc = "loop" /\ faded_diff_choice
    /\ faded_diff_choice' = FALSE
    /\ event' = [kind |-> "escape"]
    /\ UNCHANGED <<rects, last_moves, selected_index, notes_mode, scr, faded_win,
                   continue, paused, gui_difficulty, clickable, gpc, presses, player>>
    /\ UNCHANGED <<timer, ticks, ran, current, pass, shown, stats, stats_to_save,
                   menu_btns>>
    /\ UNCHANGED <<engine_vars, ref>>

\* a click on the continue button
menu_continue ==
    /\ "menu" \in current /\ pass.loop = "none" /\ gpc = "loop" /\ ~ faded_diff_choice
    /\ continue
    /\ current' = make_current(end_current(current, "menu"), "game")
    /\ scr' = "game"
    /\ timer' = timer_unpause(timer, ticks)
    /\ ran' = ran_start(ran)
    /\ paused' = FALSE
    /\ event' = [kind |-> "continue"]
    /\ UNCHANGED <<rects, last_moves, selected_index, notes_mode,
                   faded_diff_choice, faded_win, continue, gui_difficulty,
                   clickable, gpc, presses, player>>
    /\ UNCHANGED <<ticks, pass, shown, stats, stats_to_save, menu_btns>>
    /\ UNCHANGED <<engine_vars, ref>>

\* a click on a difficulty button, up to the call of _generate_board; the
\* squares of the game before are not read again and are dropped here
menu_diff_click ==
    /\ "menu" \in current /\ pass.loop = "none" /\ gpc = "loop" /\ faded_diff_choice
    /\ \E diff \in diff_btns :
          /\ gui_difficulty' = diff
          /\ event' = [kind |-> "difficulty"]
    /\ gpc' = "clear"
    /\ rects' = <<>>
    /\ player' = <<>>
    /\ presses' = 0
    /\ UNCHANGED <<last_moves, selected_index, notes_mode, scr, faded_diff_choice,
                   faded_win, continue, paused, clickable>>
    /\ UNCHANGED <<timer, ticks, ran, current, pass, shown, stats, stats_to_save,
                   menu_btns>>
    /\ UNCHANGED <<engine_vars, ref>>

\* _generate_board, line 759: self._sudoku_engine.clear_board()
gui_clear_board_skipped ==
    /\ gpc = "clear"
    /\ gpc' = "generate"
    /\ UNCHANGED <<rects, last_moves, selected_index, notes_mode, scr,
                   faded_diff_choice, faded_win, continue, paused, gui_difficulty,
                   clickable, event, presses, player>>
    /\ UNCHANGED <<timer, ticks, ran, current, pass, shown, stats, stats_to_save,
                   menu_btns>>
    /\ UNCHANGED <<engine_vars, ref>>

gui_clear_board ==
    /\ gpc = "clear"
    /\ ClearBoardCall
    /\ gpc' = "generate"
    /\ UNCHANGED <<rects, last_moves, selected_index, notes_mode, scr,
                   faded_diff_choice, faded_win, continue, paused, gui_difficulty,
                   clickable, event, presses, player>>
    /\ UNCHANGED <<timer, ticks, ran, current, pass, shown, stats, stats_to_save,
                   menu_btns>>

\* line 760: self._sudoku_engine.generate(self._difficulty), the call
gui_generate ==
    /\ gpc = "generate"
    /\ GenerateCall(gui_difficulty)
    /\ gpc' = "engine"
    /\ UNCHANGED <<rects, last_moves, selected_index, notes_mode, scr,
                   faded_diff_choice, faded_win, continue, paused, gui_difficulty,
                   clickable, event, presses, player>>
    /\ UNCHANGED <<timer, ticks, ran, current, pass, shown, stats, stats_to_save,
                   menu_btns, ref>>

\* generate has returned: lines 761-772, the squares are built with get_value
\* (the last call is get_value(8, 8)), and the rest of the click's handler
\* (lines 1331-1337)
gui_make_rects ==
    /\ gpc = "engine" /\ pc = "idle" /\ result = "returned"
    /\ rects' = MakeRects(board)
    /\ shown' = {}
    /\ got' = {<<Size - 1, Size - 1, board[Size - 1][Size - 1]>>}
    /\ continue' = FALSE
    /\ current' = make_current(end_current(current, "menu"), "game")
    /\ scr' = "game"
    /\ timer' = timer_unpause(timer_reset(timer), ticks)
    /\ ran' = ran_start(RanNone)
    /\ paused' = FALSE
    /\ faded_diff_choice' = FALSE
    /\ faded_win' = FALSE
    /\ gpc' = "loop"
    /\ player' = Player(MakeRects(board))
    /\ UNCHANGED <<last_moves, selected_index, notes_mode, gui_difficulty,
                   clickable, event, presses>>
    /\ UNCHANGED <<ticks, pass, stats, stats_to_save, menu_btns, ref>>
    /\ UNCHANGED <<board, pc, level, diff_chosen, x, y, nums, stack, ret, steps, k,
                   rng, seed, filled, solved, result, lastop, fresh, calls,
                   first, query, before, put>>

----------------------------------------------------------------------------
(* _game_loop: one action per frame, named after the event it handles *)

\* _show_win_screen(), lines 1270-1277: the statistics it leaves
show_win_screen(st, to_save, solved_time) ==
    IF to_save
      THEN [times |-> [st.times EXCEPT ![DIFF_TO_STATS[gui_difficulty]] =
                          Append(@, solved_time)],
            count |-> [st.count EXCEPT ![DIFF_TO_STATS[gui_difficulty]] = @ + 1]]
      ELSE st

\* the end of a frame that leaves the squares r, the pause flag pa, the timer
\* tm with the running time rn and the win flag fw: _draw_numpad makes the
\* buttons of the completed digits unclickable, _check_win may set the win
\* state, and the win screen is shown while it is set (lines 1433-1445)
FrameEnd(r, pa, tm, rn, fw) ==
    /\ clickable' = IF pa THEN clickable ELSE Digits \ check_completion(r)
    /\ \E won \in {fw \/ check_win(r)} :
          /\ faded_win' = won
          /\ stats' = IF won
                        THEN show_win_screen(stats, stats_to_save,
                                             timer_current(tm, pa, ticks))
                        ELSE stats
          /\ stats_to_save' = IF won THEN FALSE ELSE stats_to_save
          /\ timer' = IF won THEN timer_stop(tm, ticks) ELSE tm
          /\ ran' = IF won THEN ran_end(rn) ELSE rn

\* the first frame after the menu: no event
game_draw ==
    /\ "game" \in current /\ pass.loop = "none" /\ gpc = "loop" /\ Entered
    /\ FrameEnd(rects, paused, timer, ran, faded_win)
    /\ event' = [kind |-> "none"]
    /\ UNCHANGED <<rects, last_moves, selected_index, notes_mode, scr,
                   faded_diff_choice, continue, paused, gui_difficulty, gpc,
                   presses, player>>
    /\ UNCHANGED <<ticks, current, pass, shown, menu_btns>>
    /\ UNCHANGED <<engine_vars, ref>>

\* a click on a square: _select_on_click
game_click_square ==
    /\ InGame /\ ~ faded_win
    /\ \E p \in ClickSquares :
          LET sq == SquareAt(rects, p[1], p[2])
          IN  /\ selected_index' = IF paused THEN <<-1, -1>> ELSE <<sq.row, sq.col>>
              /\ shown' = IF paused THEN {} ELSE {<<sq.row, sq.col>>}
    /\ selected_index' # selected_index
    /\ FrameEnd(rects, paused, timer, ran, faded_win)
    /\ event' = [kind |-> "square"]
    /\ UNCHANGED <<rects, last_moves, notes_mode, scr, faded_diff_choice,
                   continue, paused, gui_difficulty, gpc, presses, player>>
    /\ UNCHANGED <<ticks, current, pass, menu_btns>>
    /\ UNCHANGED <<engine_vars, ref>>

\* a key goes down: _key_press_handler, then _check_if_correct
game_keydown ==
    /\ InGame /\ ~ faded_win
    /\ \E key \in KeyInputs :
          \E h \in {key_press_handler(key, selected_index)} :
             \E r \in {check_if_correct(h.rects)} :
                /\ rects' = r
                /\ last_moves' = h.last_moves
                /\ notes_mode' = h.notes_mode
                /\ paused' = h.paused
                /\ shown' = key_press_shown(h.paused, selected_index)
                /\ FrameEnd(r, h.paused, key_press_timer(key), key_press_ran(key),
                            faded_win)
                /\ event' = [kind |-> "keydown"]
                /\ presses' = IF FreePlay /\ key # K_TAB
                                THEN presses + 1 ELSE presses
    /\ UNCHANGED <<selected_index, scr, faded_diff_choice, continue,
                   gui_difficulty, gpc, player>>
    /\ UNCHANGED <<ticks, current, pass, menu_btns>>
    /\ UNCHANGED <<engine_vars, ref>>

\* a click on a numpad button
game_click_numpad ==
    /\ InGame /\ ~ faded_win
    /\ MayPress
    /\ \E n \in player.digits \cap clickable :
          \E h \in {key_press_handler(NUM_TO_PY[n], selected_index)} :
             \E r \in {check_if_correct(h.rects)} :
                /\ rects' = r
                /\ last_moves' = h.last_moves
                /\ FrameEnd(r, paused, timer, ran, faded_win)
                /\ event' = [kind |-> "numpad"]
    /\ shown' = key_press_shown(paused, selected_index)
    /\ presses' = presses + 1
    /\ UNCHANGED <<selected_index, notes_mode, scr, faded_diff_choice,
                   continue, paused, gui_difficulty, gpc, player>>
    /\ UNCHANGED <<ticks, current, pass, menu_btns>>
    /\ UNCHANGED <<engine_vars, ref>>

\* a click on the erase button: no _check_if_correct follows
game_click_erase ==
    /\ InGame /\ ~ faded_win
    /\ MayPress
    /\ ~ paused
    /\ \E h \in {key_press_handler(K_BACKSPACE, selected_index)} :
           /\ rects' = h.rects
           /\ last_moves' = h.last_moves
           /\ FrameEnd(h.rects, paused, timer, ran, faded_win)
    /\ shown' = key_press_shown(paused, selected_index)
    /\ event' = [kind |-> "erase"]
    /\ presses' = presses + 1
    /\ UNCHANGED <<selected_index, notes_mode, scr, faded_diff_choice,
                   continue, paused, gui_difficulty, gpc, player>>
    /\ UNCHANGED <<ticks, current, pass, menu_btns>>
    /\ UNCHANGED <<engine_vars, ref>>

\* a click on the undo button; _select_on_click then finds no square
game_click_undo ==
    /\ InGame /\ ~ faded_win
    /\ MayPress
    /\ ~ paused
    /\ \E u \in {undo_move(rects, last_moves)} :
          \E r \in {check_if_correct(reset_state(u.rects, FALSE))} :
             /\ rects' = r
             /\ last_moves' = u.last_moves
             /\ FrameEnd(r, paused, timer, ran, faded_win)
    /\ selected_index' = <<-1, -1>>
    /\ shown' = {}
    /\ event' = [kind |-> "undo"]
    /\ presses' = presses + 1
    /\ UNCHANGED <<notes_mode, scr, faded_diff_choice, continue,
                   paused, gui_difficulty, gpc, player>>
    /\ UNCHANGED <<ticks, current, pass, menu_btns>>
    /\ UNCHANGED <<engine_vars, ref>>

\* a click on the return button, and the end of its frame
game_click_return ==
    /\ InGame /\ ~ faded_win
    /\ last_moves = <<>>
    /\ current' = make_current(end_current(current, "game"), "menu")
    /\ scr' = "menu"
    /\ paused' = TRUE
    /\ continue' = TRUE
    /\ menu_btns' = update_menu_layout(menu_btns, TRUE)
    /\ selected_index' = <<-1, -1>>
    /\ shown' = {}
    /\ FrameEnd(rects, TRUE, timer_pause(timer, ticks), ran_end(ran), faded_win)
    /\ event' = [kind |-> "return"]
    /\ UNCHANGED <<rects, last_moves, notes_mode, faded_diff_choice,
                   gui_difficulty, gpc, presses, player>>
    /\ UNCHANGED <<ticks, pass>>
    /\ UNCHANGED <<engine_vars, ref>>

\* a click on the return button of the win screen, and the end of its frame
game_click_win_return ==
    /\ InGame /\ faded_win
    /\ current' = make_current(end_current(current, "game"), "menu")
    /\ scr' = "menu"
    /\ continue' = FALSE
    /\ menu_btns' = update_menu_layout(menu_btns, FALSE)
    /\ FrameEnd(rects, paused, timer, ran, FALSE)
    /\ event' = [kind |-> "win_return"]
    /\ UNCHANGED <<rects, last_moves, selected_index, notes_mode,
                   faded_diff_choice, paused, gui_difficulty, gpc, presses, player>>
    /\ UNCHANGED <<ticks, pass, shown>>
    /\ UNCHANGED <<engine_vars, ref>>

----------------------------------------------------------------------------
(* SpecGui: the program as the player drives it *)

InitGui == Init /\ level = 0

NextGui ==
    \/ menu_new_game
    \/ menu_escape
    \/ menu_continue
    \/ menu_diff_click
    \/ gui_clear_board
    \/ gui_generate
    \/ seed_draw
    \/ fill_enter
    \/ fill_try
    \/ fill_exhausted
    \/ fill_resume
    \/ fill_return
    \/ remove_redraw
    \/ remove_blank
    \/ generate_return
    \/ gui_make_rects
    \/ game_draw
    \/ game_click_square
    \/ game_keydown
    \/ game_click_numpad
    \/ game_click_erase
    \/ game_click_undo
    \/ game_click_return
    \/ game_click_win_return

SpecGui == InitGui /\ [][NextGui]_vars

----------------------------------------------------------------------------
(* Properties of the game screen *)

\* the values of the squares r as a grid, by the row and col of each square
Values(r) == [row \in Idx |-> [col \in Idx |-> get_square(r, row, col).value]]

\* the notes of the squares r, by the row and col of each square
Notes(r) == [row \in Idx |-> [col \in Idx |-> get_square(r, row, col).notes]]

\* C27: every call of generate the program makes comes from _generate_board
\* of the GUI, directly after its clear_board() on the same engine (the last
\* operation on the engine is that clear_board, and the grid is all zero),
\* and passes the index of a difficulty button, one of 0..3.
C27_GenerateAfterClear ==
    [][(calls' # calls) =>
          /\ gpc = "generate" /\ gpc' = "engine"
          /\ lastop = "clear_board" /\ lastop' = "generate"
          /\ AllZero(board)
          /\ diff_chosen' = gui_difficulty
          /\ diff_chosen' \in 0 .. 3]_vars

\* the second game's generate has just been called with level 3, on the grid
\* clear_board emptied after the first game
C27_Witness ==
    /\ gpc = "engine" /\ pc = "seed" /\ lastop = "generate"
    /\ calls = 2
    /\ x = 0 /\ y = 0
    /\ AllZero(before)
    /\ diff_chosen = 3

\* C28: whenever the win state is set during the game loop or the menu loop,
\* all 81 squares hold a non-zero value and no two distinct squares of one
\* row, column or box hold the same value.
C28_WinOnlySolved ==
    (faded_win /\ gpc = "loop") =>
        /\ NonZeroCount(Values(rects)) = Size * Size
        /\ NoDuplicate(Values(rects))

\* the player has filled the last free square and the frame set the win state
C28_Witness ==
    /\ scr = "game" /\ gpc = "loop" /\ faded_win
    /\ event.kind \in {"keydown", "numpad"}
    /\ presses >= 1
    /\ selected_index \in player.free
    /\ IsSolved(Values(rects))

\* C29: an editing move (it appends one Move to _last_moves) followed by one
\* _undo_move leaves the value and the notes of every square as they were
\* before the move.
C29_UndoRestoresBoard ==
    [][(Len(last_moves') = Len(last_moves) + 1) =>
          \E u \in {undo_move(rects', last_moves')} :
             /\ Values(u.rects) = Values(rects)
             /\ Notes(u.rects) = Notes(rects)
             /\ u.last_moves = last_moves]_vars

Conflicting(r) ==
    {p \in Cells :
        /\ get_square(r, p[1], p[2]).value # 0
        /\ \E q \in Cells \ {p} :
              /\ Related(p, q)
              /\ get_square(r, q[1], q[2]).value = get_square(r, p[1], p[2]).value}

\* the squares of r marked is_wrong
Wrong(r) == {p \in Cells : get_square(r, p[1], p[2]).is_wrong}

\* C32: after the game loop has handled a key, a numpad click, an erase click
\* or an undo click, the squares marked is_wrong are exactly the non-empty
\* squares whose value occurs again in their row, column or box.
C32_WrongIffConflict ==
    (gpc = "loop" /\ event.kind \in {"keydown", "numpad", "erase", "undo"}) =>
        Wrong(rects) = Conflicting(rects)


\* the grid a caller sees through the list it got from the board property
RefGrid == IF ref.list = "self._board" THEN board ELSE ref.grid

\* C38: the list handed out by the board property stays the engine's grid
\* across clear_board and generate: between calls it shows what the engine
\* holds, all zeros after clear_board() and the new puzzle after generate(L).
C38_RefIsEngineGrid ==
    (ref.list # "none" /\ pc = "idle") => RefGrid = board

----------------------------------------------------------------------------
(* The screen loops, event by event.  main_loop calls the loop of every    *)
(* current screen.  A loop reads the mouse position once, handles the      *)
(* events queued since the pass before one after the other, and draws.     *)
(* The click on the exit button ends the program and the notes button has  *)
(* a rectangle as wide as its text: the players click neither.             *)

K_ESCAPE == 27

\* lines 1299-1300, 1357-1358 and 1380-1381: the loop of a current screen
\* starts a pass with the mouse at one of positions
PassBegin(loop, positions, left) ==
    /\ pass.loop = "none" /\ gpc = "loop"
    /\ loop \in current
    /\ \E pos \in positions :
          pass' = [loop |-> loop, pos |-> pos, n |-> 0, left |-> left]
    /\ UNCHANGED <<rects, last_moves, selected_index, notes_mode, scr,
                   faded_diff_choice, faded_win, continue, paused, gui_difficulty,
                   clickable, gpc, event, presses, player>>
    /\ UNCHANGED <<timer, ticks, ran, current, shown, stats, stats_to_save,
                   menu_btns>>
    /\ UNCHANGED <<engine_vars, ref>>

\* what a click of the menu loop leaves when it hits no button
MenuState ==
    [current |-> current, scr |-> scr, timer |-> timer, ran |-> ran,
     paused |-> paused, faded_diff_choice |-> faded_diff_choice,
     stats_to_save |-> stats_to_save, last_moves |-> last_moves,
     kind |-> "click", diff |-> -1]

\* lines 1304-1337: what a click at pos leaves, up to the call of
\* _generate_board for the difficulty diff.  _change_language ends the menu
\* screen and makes it current again (_update_strings)
menu_click(pos) ==
    IF ~ faded_diff_choice
      THEN IF collidepoint(menu_btns[1], pos) /\ continue
             THEN [MenuState EXCEPT
                     !.current = make_current(end_current(current, "menu"), "game"),
                     !.scr = "game",
                     !.timer = timer_unpause(timer, ticks),
                     !.ran = ran_start(ran),
                     !.paused = FALSE,
                     !.kind = "continue"]
           ELSE IF collidepoint(menu_btns[2], pos)
             THEN [MenuState EXCEPT
                     !.faded_diff_choice = TRUE,
                     !.stats_to_save = TRUE,
                     !.last_moves = <<>>,
                     !.kind = "new_game"]
           ELSE IF collidepoint(menu_btns[3], pos)
             THEN [MenuState EXCEPT
                     !.current = make_current(end_current(current, "menu"), "stats"),
                     !.scr = "stats",
                     !.kind = "stats"]
           ELSE IF collidepoint(language_btn, pos)
             THEN [MenuState EXCEPT
                     !.current = make_current(end_current(current, "menu"), "menu"),
                     !.kind = "language"]
           ELSE MenuState
      ELSE LET hit == {d \in diff_btns : collidepoint(diff_btn(d), pos)}
           IN  IF hit # {}
                 THEN [MenuState EXCEPT
                         !.diff = CHOOSE d \in hit : \A e \in hit : e <= d,
                         !.kind = "difficulty"]
                 ELSE MenuState

\* a click handled by the menu loop; the squares of the game before are not
\* read during _generate_board and are dropped here
MenuClick ==
    /\ pass.loop = "menu" /\ gpc = "loop" /\ pass.n < MaxBatch
    /\ faded_diff_choice \/ ~ collidepoint(menu_btns[4], pass.pos)
    /\ pass' = [pass EXCEPT !.n = @ + 1]
    /\ \E m \in {menu_click(pass.pos)} :
          /\ m.diff # -1 => calls < MaxCalls
          /\ current' = m.current
          /\ scr' = m.scr
          /\ timer' = m.timer
          /\ ran' = m.ran
          /\ paused' = m.paused
          /\ faded_diff_choice' = m.faded_diff_choice
          /\ stats_to_save' = m.stats_to_save
          /\ last_moves' = m.last_moves
          /\ event' = [kind |-> m.kind]
          /\ IF m.diff # -1
               THEN /\ gui_difficulty' = m.diff
                    /\ gpc' = "clear"
                    /\ rects' = <<>>
                    /\ player' = <<>>
                    /\ presses' = 0
               ELSE UNCHANGED <<gui_difficulty, gpc, rects, player, presses>>
    /\ UNCHANGED <<selected_index, notes_mode, faded_win, continue, clickable>>
    /\ UNCHANGED <<ticks, shown, stats, menu_btns>>
    /\ UNCHANGED <<engine_vars, ref>>

\* lines 1338-1340: a key goes down in the menu loop
MenuKey(keys) ==
    /\ pass.loop = "menu" /\ gpc = "loop" /\ pass.n < MaxBatch
    /\ pass' = [pass EXCEPT !.n = @ + 1]
    /\ \E key \in keys :
          faded_diff_choice' = IF key = K_ESCAPE THEN FALSE ELSE faded_diff_choice
    /\ event' = [kind |-> "escape"]
    /\ UNCHANGED <<rects, last_moves, selected_index, notes_mode, scr, faded_win,
                   continue, paused, gui_difficulty, clickable, gpc, presses, player>>
    /\ UNCHANGED <<timer, ticks, ran, current, shown, stats, stats_to_save,
                   menu_btns>>
    /\ UNCHANGED <<engine_vars, ref>>

\* lines 1362-1368: a click handled by the statistics loop
StatsClick ==
    /\ pass.loop = "stats" /\ gpc = "loop" /\ pass.n < MaxBatch
    /\ pass' = [pass EXCEPT !.n = @ + 1]
    /\ IF collidepoint(stats_return_btn, pass.pos)
         THEN /\ current' = make_current(end_current(current, "stats"), "menu")
              /\ scr' = "menu"
              /\ stats' = stats
              /\ event' = [kind |-> "stats_return"]
         ELSE IF collidepoint(stats_reset_btn, pass.pos)
           THEN /\ stats' = NewStats
                /\ event' = [kind |-> "stats_reset"]
                /\ UNCHANGED <<current, scr>>
           ELSE /\ event' = [kind |-> "click"]
                /\ UNCHANGED <<current, scr, stats>>
    /\ UNCHANGED <<rects, last_moves, selected_index, notes_mode,
                   faded_diff_choice, faded_win, continue, paused, gui_difficulty,
                   clickable, gpc, presses, player>>
    /\ UNCHANGED <<timer, ticks, ran, shown, stats_to_save, menu_btns>>
    /\ UNCHANGED <<engine_vars, ref>>

\* what an event of the game loop leaves when it does nothing
GameState ==
    [rects |-> rects, last_moves |-> last_moves, selected_index |-> selected_index,
     shown |-> shown, notes_mode |-> notes_mode, paused |-> paused,
     timer |-> timer, ran |-> ran, current |-> current, scr |-> scr,
     continue |-> continue, menu_btns |-> menu_btns, faded_win |-> faded_win,
     kind |-> "ignored"]

\* _select_on_click(pos) with the pause flag pa: _reset_state clears every
\* selected flag, and the square under pos is selected unless the timer is
\* paused
select_on_click(g, pos, pa) ==
    LET hit == {p \in Cells : collidepoint(square_rect(p[1], p[2]), pos)}
    IN  IF hit # {} /\ ~ pa
          THEN [g EXCEPT !.selected_index = CHOOSE p \in hit : TRUE,
                         !.shown = hit]
          ELSE [g EXCEPT !.selected_index = <<-1, -1>>, !.shown = {}]

\* the undo button taken for enabled whatever the pause flag is
undo_enabled_paused(pos, pa) == collidepoint(undo_btn, pos)

\* the guards of lines 1395 and 1399: the erase and the undo button
erase_enabled(pos, pa) == collidepoint(erase_btn, pos) /\ ~ pa
undo_enabled(pos, pa) == collidepoint(undo_btn, pos) /\ ~ pa

\* lines 1384-1427: what a click at pos leaves.  A numpad button or the
\* erase button keeps the selection (sidebar_clicked)
game_click(pos) ==
    IF ~ faded_win
      THEN LET pad == {n \in clickable : collidepoint(numpad_btns[n], pos)}
           IN  IF pad # {}
                 THEN LET h == key_press_handler(
                                   NUM_TO_PY[CHOOSE n \in pad : TRUE], selected_index)
                      IN  [GameState EXCEPT
                              !.rects = check_if_correct(h.rects),
                              !.last_moves = h.last_moves,
                              !.shown = key_press_shown(paused, selected_index),
                              !.kind = "numpad"]
               ELSE IF erase_enabled(pos, paused)
                 THEN LET h == key_press_handler(K_BACKSPACE, selected_index)
                      IN  [GameState EXCEPT
                              !.rects = h.rects,
                              !.last_moves = h.last_moves,
                              !.shown = key_press_shown(paused, selected_index),
                              !.kind = "erase"]
               ELSE IF undo_enabled(pos, paused)
                 THEN LET u == undo_move(rects, last_moves)
                      IN  select_on_click(
                              [GameState EXCEPT
                                  !.rects = check_if_correct(
                                                reset_state(u.rects, FALSE)),
                                  !.last_moves = u.last_moves,
                                  !.kind = "undo"],
                              pos, paused)
               ELSE IF collidepoint(pause_btn, pos) /\ ~ paused
                 THEN select_on_click(
                          [GameState EXCEPT
                              !.timer = timer_pause(timer, ticks),
                              !.ran = ran_end(ran),
                              !.paused = TRUE,
                              !.kind = "pause"],
                          pos, TRUE)
               ELSE IF collidepoint(unpause_btn, pos) /\ paused
                 THEN select_on_click(
                          [GameState EXCEPT
                              !.timer = timer_unpause(timer, ticks),
                              !.ran = ran_start(ran),
                              !.paused = FALSE,
                              !.kind = "unpause"],
                          pos, FALSE)
               ELSE IF collidepoint(return_btn, pos)
                 THEN select_on_click(
                          [GameState EXCEPT
                              !.current =
                                  make_current(end_current(current, "game"), "menu"),
                              !.scr = "menu",
                              !.timer = timer_pause(timer, ticks),
                              !.ran = ran_end(ran),
                              !.paused = TRUE,
                              !.continue = TRUE,
                              !.menu_btns = update_menu_layout(menu_btns, TRUE),
                              !.kind = "return"],
                          pos, TRUE)
               ELSE select_on_click([GameState EXCEPT !.kind = "square"],
                                    pos, paused)
      ELSE IF collidepoint(win_return_btn, pos)
        THEN [GameState EXCEPT
                 !.faded_win = FALSE,
                 !.current = make_current(end_current(current, "game"), "menu"),
                 !.scr = "menu",
                 !.continue = FALSE,
                 !.menu_btns = update_menu_layout(menu_btns, FALSE),
                 !.kind = "win_return"]
        ELSE GameState

\* lines 1428-1431: what a key that goes down leaves
game_key(key) ==
    IF ~ faded_win
      THEN LET h == key_press_handler(key, selected_index)
           IN  [GameState EXCEPT
                   !.rects = check_if_correct(h.rects),
                   !.last_moves = h.last_moves,
                   !.notes_mode = h.notes_mode,
                   !.paused = h.paused,
                   !.timer = key_press_timer(key),
                   !.ran = key_press_ran(key),
                   !.shown = key_press_shown(h.paused, selected_index),
                   !.kind = "keydown"]
      ELSE GameState

\* an event of the game loop leaves g
GameEvent(g) ==
    /\ pass' = [pass EXCEPT !.n = @ + 1]
    /\ rects' = g.rects
    /\ last_moves' = g.last_moves
    /\ selected_index' = g.selected_index
    /\ shown' = g.shown
    /\ notes_mode' = g.notes_mode
    /\ paused' = g.paused
    /\ timer' = g.timer
    /\ ran' = g.ran
    /\ current' = g.current
    /\ scr' = g.scr
    /\ continue' = g.continue
    /\ menu_btns' = g.menu_btns
    /\ faded_win' = g.faded_win
    /\ event' = [kind |-> g.kind]
    /\ presses' = presses + 1
    /\ UNCHANGED <<faded_diff_choice, gui_difficulty, clickable, gpc, player>>
    /\ UNCHANGED <<ticks, stats, stats_to_save>>
    /\ UNCHANGED <<engine_vars, ref>>

\* a click handled by the game loop, on at most one numpad button
GameClick ==
    /\ pass.loop = "game" /\ gpc = "loop" /\ pass.n < MaxBatch
    /\ Cardinality({n \in clickable : collidepoint(numpad_btns[n], pass.pos)}) <= 1
    /\ \E g \in {game_click(pass.pos)} : GameEvent(g)

\* a key goes down in the game loop
GameKey(keys) ==
    /\ pass.loop = "game" /\ gpc = "loop" /\ pass.n < MaxBatch
    /\ \E key \in keys : \E g \in {game_key(key)} : GameEvent(g)

\* the events of the pass are handled: the game loop ends its frame (lines
\* 1433-1446), the other loops only draw
PassEnd ==
    /\ pass.loop # "none" /\ gpc = "loop"
    /\ pass' = [NoPass EXCEPT !.left = pass.left]
    /\ IF pass.loop = "game"
         THEN FrameEnd(rects, paused, timer, ran, faded_win)
         ELSE UNCHANGED <<clickable, faded_win, stats, stats_to_save, timer, ran>>
    /\ UNCHANGED <<rects, last_moves, selected_index, notes_mode, scr,
                   faded_diff_choice, continue, paused, gui_difficulty, gpc,
                   event, presses, player>>
    /\ UNCHANGED <<ticks, current, shown, menu_btns>>
    /\ UNCHANGED <<engine_vars, ref>>

\* the centre of a rectangle
centre(rect) == <<rect.left + rect.width \div 2, rect.top + rect.height \div 2>>

\* the clock of pygame.time.get_ticks goes on by one unit between two passes,
\* once the first board is there
tick ==
    /\ ticks < MaxTicks
    /\ pass.loop = "none" /\ gpc = "loop" /\ rects # <<>>
    /\ ticks' = ticks + 1
    /\ ran' = IF ran.running THEN [ran EXCEPT !.time = @ + 1] ELSE ran
    /\ UNCHANGED <<rects, last_moves, selected_index, notes_mode, scr,
                   faded_diff_choice, faded_win, continue, paused, gui_difficulty,
                   clickable, gpc, event, presses, player>>
    /\ UNCHANGED <<timer, current, pass, shown, stats, stats_to_save, menu_btns>>
    /\ UNCHANGED <<engine_vars, ref>>

----------------------------------------------------------------------------
(* SpecTimer: the clock runs, and the player starts games, pauses them     *)
(* with the button and the space key, leaves them and comes back, without  *)
(* editing a square                                                        *)

timer_menu_pass ==
    /\ pass.left > 0
    /\ PassBegin("menu", {centre(diff_btn(0)), centre(diff_btn(1))}, pass.left - 1)

timer_game_pass ==
    /\ pass.left > 0
    /\ PassBegin("game", {centre(pause_btn), centre(return_btn)}, pass.left - 1)

timer_space == GameKey({K_SPACE})

NextTimer ==
    \/ tick
    \/ timer_menu_pass
    \/ timer_game_pass
    \/ MenuClick
    \/ GameClick
    \/ timer_space
    \/ PassEnd
    \/ gui_clear_board
    \/ gui_generate
    \/ seed_draw
    \/ fill_enter
    \/ fill_try
    \/ fill_exhausted
    \/ fill_resume
    \/ fill_return
    \/ remove_redraw
    \/ remove_blank
    \/ generate_return
    \/ gui_make_rects

SpecTimer == InitGui /\ [][NextTimer]_vars

\* C31: whenever a screen loop runs, Timer.current is the clock time that
\* passed between each unpause and the pause or stop after it since the last
\* reset, with the running interval in progress
C31_TimerCountsRunningTime ==
    gpc = "loop" => timer_current(timer, paused, ticks) = ran.time

----------------------------------------------------------------------------
(* SpecMenu: the player clicks through the menu and the statistics screen, *)
(* at most MaxBatch events to a pass and MaxPasses passes, and in a game   *)
(* clicks the first empty square, types its digit, and clicks Undo and     *)
(* Return                                                                  *)

MenuPositions ==
    {centre(diff_btn(0)), centre(diff_btn(1)), centre(diff_btn(2)),
     centre(language_btn)}

menu_pass ==
    /\ pass.left > 0
    /\ PassBegin("menu", MenuPositions, pass.left - 1)

menu_escape_key == MenuKey({K_ESCAPE})

stats_pass ==
    /\ pass.left > 0
    /\ PassBegin("stats", {centre(stats_return_btn), centre(stats_reset_btn)},
                 pass.left - 1)

menu_game_pass ==
    /\ pass.left > 0
    /\ PassBegin("game",
                 {centre(return_btn), centre(undo_btn)}
                    \cup {centre(square_rect(p[1], p[2])) : p \in NextSquare},
                 pass.left - 1)

menu_game_key ==
    GameKey({K_1 + solved[p[1]][p[2]] - 1 : p \in NextSquare})

NextMenu ==
    \/ menu_pass
    \/ stats_pass
    \/ menu_game_pass
    \/ MenuClick
    \/ menu_escape_key
    \/ StatsClick
    \/ GameClick
    \/ menu_game_key
    \/ PassEnd
    \/ gui_clear_board
    \/ gui_generate
    \/ seed_draw
    \/ fill_enter
    \/ fill_try
    \/ fill_exhausted
    \/ fill_resume
    \/ fill_return
    \/ remove_redraw
    \/ remove_blank
    \/ generate_return
    \/ gui_make_rects

SpecMenu == InitGui /\ [][NextMenu]_vars

\* C34: while _generate_board runs for a new board, the undo history
\* _last_moves is empty
C34_NewBoardEmptyHistory ==
    gpc \in {"clear", "generate", "engine"} => last_moves = <<>>

\* C36: exactly one of the screens menu, statistics and game is current
C36_OneScreenCurrent == Cardinality(current) = 1

----------------------------------------------------------------------------
(* SpecWin: the player fills the first board square by square up to the    *)
(* free square, one event to a frame.  Then come passes of the game loop   *)
(* with at most MaxBatch events each and MaxEvents events in all: clicks   *)
(* on the free square, the numpad button of its digit, Undo, Pause, Return *)
(* and the Return of the win screen, the digit key and the space key.  The *)
(* menu is clicked before the first game and after a win, and the boards   *)
(* after the first are not played.                                         *)

FirstGames == calls < MaxCalls /\ rects # <<>> /\ gpc = "loop"

win_menu_pass ==
    /\ pass.left > 0
    /\ calls = 0 \/ faded_win
    /\ PassBegin("menu", {centre(diff_btn(0)), centre(diff_btn(1))}, pass.left - 1)

win_play_click == FirstGames /\ ~ FreePlay /\ game_click_square

win_play_key == FirstGames /\ ~ FreePlay /\ game_keydown

WinPositions ==
    {centre(square_rect(p[1], p[2])) : p \in player.free}
       \cup {centre(numpad_btns[solved[p[1]][p[2]]]) : p \in player.free}
       \cup {centre(undo_btn), centre(pause_btn), centre(return_btn),
             centre(win_return_btn)}

win_game_pass ==
    /\ FirstGames /\ "game" \in current /\ FreePlay /\ presses < MaxEvents
    /\ PassBegin("game", WinPositions, pass.left)

win_click == presses < MaxEvents /\ GameClick

win_key ==
    /\ presses < MaxEvents
    /\ GameKey({K_1 + solved[p[1]][p[2]] - 1 : p \in player.free} \cup {K_SPACE})

NextWin ==
    \/ win_menu_pass
    \/ MenuClick
    \/ menu_escape_key
    \/ gui_clear_board
    \/ gui_generate
    \/ seed_draw
    \/ fill_enter
    \/ fill_try
    \/ fill_exhausted
    \/ fill_resume
    \/ fill_return
    \/ remove_redraw
    \/ remove_blank
    \/ generate_return
    \/ gui_make_rects
    \/ game_draw
    \/ win_play_click
    \/ win_play_key
    \/ win_game_pass
    \/ win_click
    \/ win_key
    \/ PassEnd

SpecWin == InitGui /\ [][NextWin]_vars

\* the squares whose selected flag is set are those the stored selection names
SelectionShown ==
    shown = IF selected_index = <<-1, -1>> THEN {} ELSE {selected_index}

\* C33: whenever a board is up and a screen loop runs, _selected_index is
\* (-1, -1) exactly when no square has its selected flag set, and otherwise
\* names the one square whose flag is set
C33_SelectionMatchesBoard == (gpc = "loop" /\ rects # <<>>) => SelectionShown

\* C35: the statistics change only in the frame that brings up the win
\* screen, not in a later frame of the same win screen
C35_RecordedOnce == [][stats' # stats => (~ faded_win /\ faded_win')]_vars

\* C37: an event the game loop handles while the timer is paused or the win
\* screen is shown changes no value, no notes and not the undo history
C37_NoEditPausedOrWon ==
    [][(pass.loop = "game" /\ pass'.n = pass.n + 1 /\ (paused \/ faded_win))
          => /\ Values(rects') = Values(rects)
             /\ Notes(rects') = Notes(rects)
             /\ last_moves' = last_moves]_vars

\* a numpad click was handled with a square selected and the timer paused
C37_Witness ==
    /\ pass.loop = "game" /\ paused
    /\ event.kind = "numpad"
    /\ selected_index # <<-1, -1>>
    /\ last_moves # <<>>

====
